---- MODULE Spec2Model ----
(***************************************************************************)
(* Job scheduler: duplicate-safe admission (JobService.createJob and       *)
(* checkForDuplicate), the enable/disable/update/delete lifecycle          *)
(* operations, the Redis cache (CacheService) and the BullMQ work queue,   *)
(* modelled from services/job.service.ts, services/cache.service.ts,       *)
(* utils/jobHash.ts, utils/scheduler.ts and db/schema.ts.                  *)
(*                                                                         *)
(* Every "await" of a handler is one step of the calling process, so that  *)
(* concurrent requests interleave at exactly the suspension points of the  *)
(* code.                                                                   *)
(***************************************************************************)
EXTENDS Integers, Sequences, FiniteSets, TLC

(***************************************************************************)
(* Bounds of the model.                                                    *)
(***************************************************************************)
MaxId == 2          \* rows the serial primary key may hand out
MaxNow == 2         \* last instant of the clock
MaxRequests == 4    \* requests that arrive, and queue entries that are
                    \* dispatched, in one run

(***************************************************************************)
(* Values.                                                                 *)
(***************************************************************************)
NULL == "NULL"
\* The value of a property that the request body leaves out.
UNDEFINED == "UNDEFINED"
\* Dates are instants of the clock, one instant a day; 0 stands for a null
\* date.
NoRow ==
  [id |-> 0, name |-> NULL, frequency |-> NULL, cronExpression |-> NULL,
   data |-> NULL, dataHash |-> NULL, status |-> NULL, enabled |-> FALSE,
   startDate |-> 0, endDate |-> 0, lastRunAt |-> 0, nextRunAt |-> 0,
   retryCount |-> 0]

Ids == 1..MaxId
Procs == {"p1", "p2"}
\* The BullMQ worker calls the service as one more caller.
Slots == Procs \cup {"w"}

JobStatus == {"PENDING", "RUNNING", "COMPLETED", "FAILED", "CANCELLED"}
JobFrequency == {"ONCE", "DAILY", "WEEKLY", "MONTHLY", "CUSTOM"}

\* String.prototype.trim on the strings of the model
Trim(s) ==
  CASE s = "a " -> "a"
    [] s = " c1" -> "c1"
    [] s = " x" -> "x"
    [] s = "x " -> "x"
    [] s = "y " -> "y"
    [] OTHER -> s

\* String.prototype.toUpperCase on the strings of the model
ToUpperCase(s) ==
  CASE s = "pending" -> "PENDING"
    [] s = "running" -> "RUNNING"
    [] s = "completed" -> "COMPLETED"
    [] s = "failed" -> "FAILED"
    [] s = "once" -> "ONCE"
    [] s = "daily" -> "DAILY"
    [] s = "weekly" -> "WEEKLY"
    [] s = "monthly" -> "MONTHLY"
    [] s = "custom" -> "CUSTOM"
    [] s = "hourly" -> "HOURLY"
    [] OTHER -> s

\* convertStatusToDbString, had it stored every status as pending.
convertStatusToDbStringPending(status) == "pending"

convertStatusToDbString(status) ==
  CASE status = "PENDING" -> "pending"
    [] status = "RUNNING" -> "running"
    [] status = "COMPLETED" -> "completed"
    [] status = "FAILED" -> "failed"
    [] status = "CANCELLED" -> "failed"
    [] OTHER -> "pending"

frequencyToDbString(frequency) ==
  CASE frequency = "ONCE" -> "once"
    [] frequency = "DAILY" -> "daily"
    [] frequency = "WEEKLY" -> "weekly"
    [] frequency = "MONTHLY" -> "monthly"
    [] frequency = "CUSTOM" -> "custom"
    [] OTHER -> "once"

dbStringToStatus(status) ==
  IF ToUpperCase(status) \in JobStatus THEN ToUpperCase(status) ELSE "PENDING"

dbStringToFrequency(frequency) ==
  IF ToUpperCase(frequency) \in JobFrequency THEN ToUpperCase(frequency) ELSE "ONCE"

\* The Job a handler works with: a store row (or a decoded cache entry)
\* passed through the enum conversions.
mapDbRowToJob(job) ==
  IF job.id = 0 THEN job ELSE
  [job EXCEPT !.status = dbStringToStatus(job.status),
              !.frequency = dbStringToFrequency(job.frequency)]

(***************************************************************************)
(* JavaScript values, as far as the fingerprint looks at them: a string,   *)
(* null, undefined, an array, and an object as the sequence of its         *)
(* <<key, value>> pairs in insertion order.                                *)
(***************************************************************************)
Str(s) == <<"str", s>>
JsNull == <<"null">>
JsUndefined == <<"undefined">>
Arr(items) == <<"arr", items>>
Obj(pairs) == <<"obj", pairs>>

\* The payload of the jobs of the runs: the empty document.
EmptyData == Obj(<<>>)

\* The order of the keys, had the keys been left in insertion order.
KeyRankUnordered(key) == 1

\* The position of a key in the order of Array.prototype.sort (UTF-16 code
\* units) among the keys of the model.
KeyRank(key) ==
  CASE key = "a" -> 1
    [] key = "a\":\"x\",\"b" -> 2
    [] key = "b" -> 3
    [] key = "cronExpression" -> 4
    [] key = "data" -> 5
    [] key = "frequency" -> 6
    [] key = "name" -> 7
    [] OTHER -> 8

\* Object.keys(data).sort(): the pairs of an object in the order of their keys.
RECURSIVE SortKeys(_)
SortKeys(pairs) ==
  IF pairs = <<>> THEN <<>>
  ELSE LET i == CHOOSE m \in 1..Len(pairs) :
                  \A n \in 1..Len(pairs) : KeyRank(pairs[m][1]) <= KeyRank(pairs[n][1])
           rest == [n \in 1..(Len(pairs) - 1) |-> IF n < i THEN pairs[n] ELSE pairs[n + 1]]
       IN <<pairs[i]>> \o SortKeys(rest)

\* normalizeJobHashData: null and undefined become null, the items of an
\* array are normalised in place, the keys of an object are sorted and its
\* values normalised, a string is trimmed.
RECURSIVE normalizeJobHashData(_)
normalizeJobHashData(data) ==
  CASE data[1] \in {"null", "undefined"} -> JsNull
    [] data[1] = "arr" ->
         Arr([i \in 1..Len(data[2]) |-> normalizeJobHashData(data[2][i])])
    [] data[1] = "obj" ->
         LET sorted == SortKeys(data[2])
         IN Obj([i \in 1..Len(sorted) |->
                   LET value == sorted[i][2]
                   IN <<sorted[i][1],
                        CASE value[1] \in {"null", "undefined"} -> JsNull
                          [] value[1] = "str" -> Str(Trim(value[2]))
                          [] OTHER -> normalizeJobHashData(value)>>])
    [] OTHER -> Str(Trim(data[2]))

\* array.join(','): the serialisations of the parts, a comma between them.
RECURSIVE Join(_)
Join(parts) ==
  IF parts = <<>> THEN <<>>
  ELSE IF Len(parts) = 1 THEN parts[1]
  ELSE parts[1] \o << <<"p", ",">> >> \o Join(Tail(parts))

\* stringifyDeterministicForHash: the canonical string, as the sequence of
\* its tokens (punctuation, a quoted key followed by a colon, a quoted
\* string).
RECURSIVE stringifyDeterministicForHash(_)
stringifyDeterministicForHash(obj) ==
  CASE obj[1] \in {"null", "undefined"} -> << <<"p", "null">> >>
    [] obj[1] = "arr" ->
         << <<"p", "[">> >>
         \o Join([i \in 1..Len(obj[2]) |-> stringifyDeterministicForHash(obj[2][i])])
         \o << <<"p", "]">> >>
    [] obj[1] = "obj" ->
         LET keys == SortKeys(obj[2])
         IN << <<"p", "{">> >>
            \o Join([i \in 1..Len(keys) |->
                       << <<"k", keys[i][1]>> >>
                       \o stringifyDeterministicForHash(keys[i][2])])
            \o << <<"p", "}">> >>
    [] OTHER -> << <<"s", obj[2]>> >>

\* The DuplicateCheckFields object createJob and checkForDuplicate build.
DuplicateCheckFields(fields) ==
  Obj(<< <<"name", Str(fields.name)>>,
         <<"frequency", Str(fields.frequency)>>,
         <<"cronExpression", CASE fields.cronExpression = NULL -> JsNull
                               [] fields.cronExpression = UNDEFINED -> JsUndefined
                               [] OTHER -> Str(fields.cronExpression)>>,
         <<"data", fields.data>> >>)

\* The UTF-16 code units of the strings of the model.
Chars(s) ==
  CASE s = "a" -> <<"a">>
    [] s = "b" -> <<"b">>
    [] s = "x" -> <<"x">>
    [] s = "y" -> <<"y">>
    [] s = "c1" -> <<"c", "1">>
    [] s = "null" -> <<"n", "u", "l", "l">>
    [] s = "ONCE" -> <<"O", "N", "C", "E">>
    [] s = "CUSTOM" -> <<"C", "U", "S", "T", "O", "M">>
    [] s = "name" -> <<"n", "a", "m", "e">>
    [] s = "data" -> <<"d", "a", "t", "a">>
    [] s = "frequency" -> <<"f", "r", "e", "q", "u", "e", "n", "c", "y">>
    [] s = "cronExpression" ->
         <<"c", "r", "o", "n", "E", "x", "p", "r", "e", "s", "s", "i", "o", "n">>
    [] s = "a\":\"x\",\"b" -> <<"a", "\"", ":", "\"", "x", "\"", ",", "\"", "b">>
    [] s = "x\",\"b\":\"y" -> <<"x", "\"", ",", "\"", "b", "\"", ":", "\"", "y">>
    [] OTHER -> <<s>>

\* JSON.stringify of a string: the code units between quotes, a quote and a
\* backslash each preceded by a backslash.
RECURSIVE Escape(_)
Escape(chars) ==
  IF chars = <<>> THEN <<>>
  ELSE (IF Head(chars) \in {"\"", "\\"} THEN <<"\\", Head(chars)>> ELSE <<Head(chars)>>)
       \o Escape(Tail(chars))

\* The text stringifyDeterministicForHash returns, code unit by code unit:
\* punctuation as it is, a key as `"${key}":` with the key as it is, a string
\* as JSON.stringify gives it.
RECURSIVE Text(_)
Text(tokens) ==
  IF tokens = <<>> THEN <<>>
  ELSE LET token == Head(tokens)
       IN (CASE token[1] = "p" -> Chars(token[2])
             [] token[1] = "k" -> <<"\"">> \o Chars(token[2]) \o <<"\"", ":">>
             [] OTHER -> <<"\"">> \o Escape(Chars(token[2])) \o <<"\"">>)
          \o Text(Tail(tokens))

\* The digest is injective on the canonical string, so the fingerprint is
\* represented by the canonical string itself: by its pieces, which give the
\* text and, as long as no key holds a quote, are given by it.
generateJobHash(fields) ==
  stringifyDeterministicForHash(normalizeJobHashData(DuplicateCheckFields(fields)))

(***************************************************************************)
(* The calendar behind Date: instant 1 is 1 January of EpochYear, months   *)
(* are counted from 1. MakeDay, YearFromTime, MonthFromTime and            *)
(* DateFromTime are the operations setDate, setMonth, getDate and getMonth *)
(* are defined by: a day or month beyond the end of its month or year runs *)
(* over into the next.                                                     *)
(***************************************************************************)
EpochYear == 2024

IsLeapYear(y) == (y % 4 = 0 /\ y % 100 # 0) \/ y % 400 = 0
DaysInYear(y) == IF IsLeapYear(y) THEN 366 ELSE 365
DaysInMonth(y, m) ==
  CASE m = 2 -> IF IsLeapYear(y) THEN 29 ELSE 28
    [] m \in {4, 6, 9, 11} -> 30
    [] OTHER -> 31

RECURSIVE DaysBeforeYear(_)
DaysBeforeYear(y) ==
  IF y <= EpochYear THEN 0 ELSE DaysBeforeYear(y - 1) + DaysInYear(y - 1)

RECURSIVE DaysBeforeMonth(_, _)
DaysBeforeMonth(y, m) ==
  IF m <= 1 THEN 0 ELSE DaysBeforeMonth(y, m - 1) + DaysInMonth(y, m - 1)

MakeDay(y, m, d) ==
  LET year == IF m > 12 THEN y + 1 ELSE y
      month == IF m > 12 THEN m - 12 ELSE m
  IN DaysBeforeYear(year) + DaysBeforeMonth(year, month) + d

RECURSIVE YearFrom(_, _)
YearFrom(t, y) ==
  IF t <= DaysBeforeYear(y) + DaysInYear(y) THEN y ELSE YearFrom(t, y + 1)
YearFromTime(t) == YearFrom(t, EpochYear)

RECURSIVE MonthFrom(_, _, _)
MonthFrom(t, y, m) ==
  IF t <= DaysBeforeYear(y) + DaysBeforeMonth(y, m) + DaysInMonth(y, m)
  THEN m ELSE MonthFrom(t, y, m + 1)
MonthFromTime(t) == MonthFrom(t, YearFromTime(t), 1)

DateFromTime(t) ==
  t - DaysBeforeYear(YearFromTime(t))
    - DaysBeforeMonth(YearFromTime(t), MonthFromTime(t))

\* What calculateNextRun yields when it throws.
Raises == -1

\* Had calculateNextRun not looked at the end date.
EndDateNeverPassed(job, t) == FALSE

\* job.endDate && new Date(job.endDate) < now
EndDatePassed(job, t) == job.endDate # 0 /\ job.endDate < t

\* Had the next run always been counted from the start date.
LastRunIsStartDate(job) == job.startDate

\* job.lastRunAt ? new Date(job.lastRunAt) : startDate
LastRun(job) == IF job.lastRunAt # 0 THEN job.lastRunAt ELSE job.startDate

\* Had the switch thrown on a frequency it does not know.
SwitchFrequencyThrows(job, normalizedFrequency) ==
  LET y == YearFromTime(LastRun(job))
      m == MonthFromTime(LastRun(job))
      d == DateFromTime(LastRun(job))
  IN CASE normalizedFrequency = "DAILY" -> MakeDay(y, m, d + 1)
       [] normalizedFrequency = "WEEKLY" -> MakeDay(y, m, d + 7)
       [] normalizedFrequency = "MONTHLY" -> MakeDay(y, m + 1, d)
       [] normalizedFrequency = "CUSTOM" ->
            IF job.cronExpression = NULL THEN Raises ELSE job.startDate
       [] OTHER -> Raises

\* The switch over the frequency of a recurring job: setDate and setMonth
\* on a copy of the last run.
SwitchFrequency(job, normalizedFrequency) ==
  LET y == YearFromTime(LastRun(job))
      m == MonthFromTime(LastRun(job))
      d == DateFromTime(LastRun(job))
  IN CASE normalizedFrequency = "DAILY" -> MakeDay(y, m, d + 1)
       [] normalizedFrequency = "WEEKLY" -> MakeDay(y, m, d + 7)
       [] normalizedFrequency = "MONTHLY" -> MakeDay(y, m + 1, d)
       [] normalizedFrequency = "CUSTOM" ->
            IF job.cronExpression = NULL THEN Raises ELSE job.startDate
       [] OTHER -> job.startDate

\* calculateNextRun(job) at instant t. The request bodies createJobSchema
\* accepts carry a cron expression whenever the frequency is CUSTOM.
calculateNextRun(job, t) ==
  LET startDate == job.startDate
      normalizedFrequency == ToUpperCase(job.frequency)
  IN IF EndDatePassed(job, t) THEN startDate
     ELSE IF startDate > t THEN startDate
     ELSE IF normalizedFrequency = "ONCE" THEN startDate
     ELSE SwitchFrequency(job, normalizedFrequency)

\* getCronExpression, had it gone by the frequency alone.
getCronExpressionByFrequency(job) ==
  CASE job.frequency = "DAILY" -> "0 0 * * *"
    [] job.frequency = "WEEKLY" -> "0 0 * * 0"
    [] job.frequency = "MONTHLY" -> "0 0 1 * *"
    [] OTHER -> NULL

getCronExpression(job) ==
  IF job.cronExpression # NULL THEN job.cronExpression
  ELSE CASE job.frequency = "DAILY" -> "0 0 * * *"
         [] job.frequency = "WEEKLY" -> "0 0 * * 0"
         [] job.frequency = "MONTHLY" -> "0 0 1 * *"
         [] OTHER -> NULL

(***************************************************************************)
(* State.                                                                  *)
(***************************************************************************)
VARIABLES
  store,     \* the jobs table: id -> row, NoRow where there is none
  nextId,    \* the serial sequence behind jobs.id
  cache,     \* Redis: key -> decoded value
  queue,     \* BullMQ: the delayed one-shot jobs and the repeatable jobs
  now,       \* Date.now()
  pc,        \* per request: the await it is suspended at
  op,        \* per request: the call and its arguments
  loc,       \* per request: the handler's local variables
  result,    \* per request: what the call returned or threw
  requests,  \* the number of requests that have arrived
  admitted,  \* history: field set -> id returned by the last successful
             \* non-forced create of it, 0 once an update, a delete or
             \* another successful create with the same name, frequency,
             \* cronExpression and data has intervened
  hist,      \* history: the fingerprints of the jobs whose delete has
             \* returned true
  boot,      \* the startup sequence of index.ts: its position, the jobs
             \* initializeJobs has loaded and still has to schedule
  worker,    \* the BullMQ worker: the position of processJob / onJobFailed
             \* and the queue entry it was dispatched for
  hashes,    \* two field sets and, once computed, their fingerprints
  calc       \* a job, an instant and, once computed, its next run

vars == <<store, nextId, cache, queue, now, pc, op, loc, result, requests, admitted,
          hist, boot, worker, hashes, calc>>

\* What has happened so far: the fingerprints of the deleted jobs, the
\* entries Redis would hold had the cache calls that failed gone through, and
\* the ids of the jobs whose createJob has thrown after the insert.
NoHist == [deleted |-> {}, working |-> [k \in {} |-> NoRow], raised |-> {}]

\* No request body, no partial.
NoFields == [name |-> NULL, frequency |-> NULL, cronExpression |-> NULL,
             data |-> JsNull]
NoPartial == [kind |-> "none"]
NoOp == [kind |-> "none", fields |-> NoFields, force |-> FALSE, id |-> 0,
         partial |-> NoPartial]
\* (lookupsFailed, writeFailed, queueCalls, admittedAtCall, readmission,
\* checkFaults, matchSeen, waits and missedHit record what has happened to
\* the call; no handler reads them)
NoLoc == [job |-> NoRow, attempt |-> 0, lookupsFailed |-> 0, writeFailed |-> FALSE,
          queueCalls |-> 0, admittedAtCall |-> 0, readmission |-> FALSE,
          checkFaults |-> {}, matchSeen |-> FALSE, waits |-> <<>>,
          missedHit |-> FALSE]
NoResult == [kind |-> "none", job |-> NoRow]

\* Request bodies accepted by createJobSchema: cronExpression is set iff the
\* frequency is CUSTOM, and is null or left out (UNDEFINED) otherwise; status
\* is PENDING and lastRunAt is null.
Fields(name, frequency, cronExpression, enabled, startDate) ==
  [name |-> name, frequency |-> frequency, cronExpression |-> cronExpression,
   data |-> EmptyData, enabled |-> enabled, startDate |-> startDate,
   status |-> "PENDING", endDate |-> 0, lastRunAt |-> 0, retryCount |-> 0]

\* startDate 1 has been reached when the model starts, startDate 2 has not.
AllFields ==
  {Fields(n, "ONCE", NULL, e, s) : n \in {"a", "a "}, e \in BOOLEAN, s \in {1, 2}}
  \cup {Fields("a", "DAILY", NULL, TRUE, 1), Fields("a", "CUSTOM", "c1", TRUE, 1),
        Fields("a", "DAILY", UNDEFINED, TRUE, 1),
        Fields("a", "WEEKLY", NULL, TRUE, 1), Fields("a", "MONTHLY", NULL, TRUE, 1)}

\* Cache keys (JobService.CACHE_KEYS / CacheService.CACHE_KEYS)
DupKey(dataHash) == <<"job:duplicate", dataHash>>
JobKey(id) == <<"job", id>>

\* cacheService.get / set / key deletion by pattern
\* (NoRow stands for the null of a miss)
cacheGet(key) == IF key \in DOMAIN cache THEN cache[key] ELSE NoRow
cacheSet(c, key, value) ==
  [k \in DOMAIN c \cup {key} |-> IF k = key THEN value ELSE c[k]]
cacheDel(c, prefixes) ==
  [k \in {x \in DOMAIN c : x[1] \notin prefixes} |-> c[k]]

\* The key pattern job:* also covers the job:duplicate:* keys.
invalidateJobListCaches(c) == cacheDel(c, {"jobs:all", "jobs:upcoming"})
invalidateAllJobCaches(c, jobId) ==
  cacheDel(c, {"job", "job:duplicate", "jobs:all", "jobs:upcoming"})

(***************************************************************************)
(* The store.                                                              *)
(***************************************************************************)
Rows == {store[i] : i \in {j \in Ids : store[j] # NoRow}}

\* jobs_duplicate_check_idx: a unique index on (name, frequency,
\* cron_expression, data_hash). PostgreSQL treats NULLs in a unique index as
\* distinct, so rows with a NULL cron_expression never conflict.
SameTuple(r, q) ==
  /\ r.name = q.name
  /\ r.frequency = q.frequency
  /\ r.cronExpression = q.cronExpression
  /\ r.dataHash = q.dataHash

duplicateCheckIdx(row) ==
  /\ row.cronExpression # NULL
  /\ \E r \in Rows : SameTuple(r, row)

\* The duplicate lookup, had it compared cron_expression with = also when the
\* requested cronExpression is null (in SQL, = NULL matches no row).
DuplicateMatchesEqNull(fields) ==
  {r \in Rows :
     /\ r.name = fields.name
     /\ r.frequency = frequencyToDbString(fields.frequency)
     /\ fields.cronExpression # NULL
     /\ r.cronExpression = fields.cronExpression
     /\ r.dataHash = generateJobHash(fields)}

\* The WHERE clause of the duplicate lookup: isNull(cron_expression) when the
\* requested cronExpression === null, eq(cron_expression, cronExpression)
\* otherwise. A cronExpression that is undefined takes the eq branch, and no
\* row's cron_expression equals it.
DuplicateMatches(fields) ==
  {r \in Rows :
     /\ r.name = fields.name
     /\ r.frequency = frequencyToDbString(fields.frequency)
     /\ IF fields.cronExpression = NULL THEN r.cronExpression = NULL
        ELSE r.cronExpression = fields.cronExpression
     /\ r.dataHash = generateJobHash(fields)}

(***************************************************************************)
(* The work queue.                                                         *)
(***************************************************************************)
JobName(id) == <<"job", id>>

\* queue.add(name, data, {delay, jobId}): a delayed job; BullMQ ignores an
\* add whose jobId is already present, be the job delayed, active or kept
\* as completed (removeOnComplete keeps it for a day).
queueAddDelayed(q, id, at) ==
  IF \E e \in q : e.kind # "repeat" /\ e.jobId = id THEN q
  ELSE q \cup {[kind |-> "delayed", name |-> JobName(id), jobId |-> id,
                at |-> at, pattern |-> NULL]}

\* queue.add(name, data, {repeat: {pattern}, jobId}): a repeatable job,
\* registered under the name it is added with.
queueAddRepeat(q, id, pattern) ==
  {e \in q : ~(e.kind = "repeat" /\ e.name = JobName(id))}
  \cup {[kind |-> "repeat", name |-> JobName(id), jobId |-> id,
         at |-> 0, pattern |-> pattern]}

\* queue.removeJobScheduler(schedulerId) removes the repeatable job
\* registered under schedulerId; a delayed job is not a job scheduler.
removeJobScheduler(q, schedulerId) ==
  {e \in q : ~(e.kind = "repeat" /\ e.name = schedulerId)}

scheduleJob(q, job, t) ==
  LET safeJob == mapDbRowToJob(job)
      nextRunAt == calculateNextRun(safeJob, t)
      delay == nextRunAt - t
      cronExpression == getCronExpression(safeJob)
  IN IF ~safeJob.enabled THEN q
     ELSE IF safeJob.frequency = "ONCE"
          THEN IF delay > 0 THEN queueAddDelayed(q, safeJob.id, t + delay) ELSE q
          ELSE IF cronExpression # NULL
               THEN queueAddRepeat(q, safeJob.id, cronExpression)
               ELSE q

\* Whether scheduleJob(job) awaits a queue.add at all.
Submits(job, t) ==
  LET safeJob == mapDbRowToJob(job)
  IN /\ safeJob.enabled
     /\ IF safeJob.frequency = "ONCE" THEN calculateNextRun(safeJob, t) - t > 0
        ELSE getCronExpression(safeJob) # NULL

OnQueueIn(q, id) == \E e \in q : e.jobId = id
OnQueue(id) == OnQueueIn(queue, id)

(***************************************************************************)
(* Initial state: empty table, empty Redis, every request idle, the        *)
(* server up and the worker waiting.                                       *)
(***************************************************************************)
\* index.ts has finished initializeServices: the HTTP server listens.
\* (scheduled and submitted record which jobs initializeJobs has passed to
\* scheduleJob and which of them were added to the queue, failed that a load
\* or a submission was rejected; the code reads none of them)
Listening == [phase |-> "listening", activeJobs |-> {}, scheduled |-> {},
              submitted |-> {}, failed |-> FALSE]

\* The worker waits for a queue entry.
\* (disabledAtCheck records whether the store had the job disabled when the
\* pre-execution check began; processJob does not read it)
NoEntry == [kind |-> "none", name |-> <<"job", 0>>, jobId |-> 0, at |-> 0,
            pattern |-> NULL]
NoWorker == [stage |-> "idle", id |-> 0, entry |-> NoEntry,
             disabledAtCheck |-> FALSE]

\* No fingerprint is being compared.
NoCalc ==
  [job |-> [frequency |-> NULL, cronExpression |-> NULL, startDate |-> 0,
            endDate |-> 0, lastRunAt |-> 0],
   now |-> 0, nextRun |-> 0]
NoHashes == [F1 |-> NoFields, F2 |-> NoFields, h1 |-> <<>>, h2 |-> <<>>]

Init ==
  /\ store = [i \in Ids |-> NoRow]
  /\ nextId = 1
  /\ cache = [k \in {} |-> NoRow]
  /\ queue = {}
  /\ now = 1
  /\ pc = [p \in Slots |-> "idle"]
  /\ op = [p \in Slots |-> NoOp]
  /\ loc = [p \in Slots |-> NoLoc]
  /\ result = [p \in Slots |-> NoResult]
  /\ requests = 0
  /\ admitted = [f \in AllFields |-> 0]
  /\ hist = NoHist
  /\ boot = Listening
  /\ worker = NoWorker
  /\ calc = NoCalc
  /\ hashes = NoHashes

\* A request arrives at an idle handler slot of the listening server.
Arrive(p) ==
  /\ pc[p] = "idle"
  /\ boot.phase = "listening"
  /\ requests < MaxRequests
  /\ requests' = requests + 1

\* A handler moves to its next await.
Goto(p, label) == pc' = [pc EXCEPT ![p] = label]

\* A handler returns or throws.
Finish(p, kind, job) ==
  /\ pc' = [pc EXCEPT ![p] = "done"]
  /\ result' = [result EXCEPT ![p] = [kind |-> kind, job |-> job]]

\* The locals of p, after p has made n more queue calls.
QueueCalls(p, n) == [loc EXCEPT ![p].queueCalls = @ + n]

(***************************************************************************)
(* createJob(jobData, {forceCreate}) with checkForDuplicate inlined.       *)
(***************************************************************************)
\* The requests that may still insert a row (each takes one id of the bound).
Inserting ==
  {q \in Procs : pc[q] \in {"dupCacheGet", "dupLookup", "dupCacheSet",
                             "dupBackoff", "insert"}}

\* The jobs table st holds a job whose name, frequency, cronExpression and
\* data are, after normalisation, those of fields.
StoreHolds(st, fields) ==
  \E i \in Ids :
    /\ st[i] # NoRow
    /\ generateJobHash(mapDbRowToJob(st[i])) = generateJobHash(fields)

\* The locals l once the table has become st: every createJob that is under
\* way and whose fields st holds has seen its match.
MatchSeen(l, st) ==
  [q \in Slots |->
     IF op[q].kind = "create" /\ pc[q] \notin {"idle", "done"}
        /\ StoreHolds(st, op[q].fields)
     THEN [l[q] EXCEPT !.matchSeen = TRUE]
     ELSE l[q]]

\* A request arrives; the duplicate check is skipped when forced.
CreateJob(p, fields, force) ==
  /\ Arrive(p)
  /\ nextId + Cardinality(Inserting) <= MaxId
  /\ op' = [op EXCEPT ![p] = [NoOp EXCEPT !.kind = "create", !.fields = fields,
                                          !.force = force]]
  /\ loc' = [loc EXCEPT ![p] =
               [NoLoc EXCEPT !.admittedAtCall = admitted[fields],
                             !.matchSeen = StoreHolds(store, fields),
                             !.readmission =
                                /\ generateJobHash(fields) \in hist.deleted
                                /\ DuplicateMatches(fields) = {}]]
  /\ Goto(p, IF force THEN "insert" ELSE "dupCacheGet")
  /\ UNCHANGED <<store, nextId, cache, queue, now, result, admitted, hist, boot, worker, hashes, calc>>

\* checkForDuplicate: cacheService.get(job:duplicate:<hash>); a hit is
\* returned at once and createJob throws DUPLICATE_JOB.
DupCacheGet(p) ==
  /\ pc[p] = "dupCacheGet"
  /\ LET cachedJob == cacheGet(DupKey(generateJobHash(op[p].fields)))
     IN IF cachedJob # NoRow
        THEN /\ Finish(p, "DUPLICATE_JOB", mapDbRowToJob(cachedJob))
             /\ loc' = loc
        ELSE /\ Goto(p, "dupLookup")
             /\ loc' = [loc EXCEPT ![p].attempt = 1]
             /\ result' = result
  /\ UNCHANGED <<requests, store, nextId, cache, queue, now, op, admitted, hist, boot, worker, hashes, calc>>

\* checkForDuplicate: the store query of one attempt answers. LIMIT 1 without
\* an ORDER BY returns any one of the matching rows.
DupLookup(p) ==
  /\ pc[p] = "dupLookup"
  /\ LET existingJobs == DuplicateMatches(op[p].fields)
     IN IF existingJobs # {}
        THEN \E row \in existingJobs :
               /\ loc' = [loc EXCEPT ![p].job = mapDbRowToJob(row)]
               /\ Goto(p, "dupCacheSet")
        ELSE /\ Goto(p, "insert")
             /\ loc' = loc
  /\ UNCHANGED <<requests, store, nextId, cache, queue, now, op, result, admitted, hist, boot, worker, hashes, calc>>

\* checkForDuplicate: the match is cached and returned; createJob throws
\* DUPLICATE_JOB carrying it.
DupCacheSet(p) ==
  /\ pc[p] = "dupCacheSet"
  /\ cache' = cacheSet(cache, DupKey(generateJobHash(op[p].fields)), loc[p].job)
  /\ Finish(p, "DUPLICATE_JOB", loc[p].job)
  /\ UNCHANGED <<requests, store, nextId, queue, now, op, loc, admitted, hist, boot, worker, hashes, calc>>

\* The failed attempt, had the error of the last attempt been rethrown to
\* createJob instead of being answered with null.
DupLookupFailClosed(p) ==
  /\ pc[p] = "dupLookup"
  /\ loc' = [loc EXCEPT ![p].lookupsFailed = @ + 1]
  /\ IF loc[p].attempt < 3
     THEN Goto(p, "dupBackoff") /\ result' = result
     ELSE Finish(p, "LOOKUP_ERROR", NoRow)
  /\ UNCHANGED <<requests, store, nextId, cache, queue, now, op, admitted, hist, boot, worker, hashes, calc>>

\* The backoff, had it not doubled.
DelayFixed(attempt) == 100

\* delay = Math.pow(2, attempt - 1) * 100, in milliseconds
Delay(attempt) == 2 ^ (attempt - 1) * 100

\* checkForDuplicate: the store query of one attempt rejects or times out.
\* Attempts 1 and 2 are followed by a backoff sleep; after attempt 3 the error
\* is caught and null is returned (fail-open), so createJob goes on to insert.
DupLookupFail(p) ==
  /\ pc[p] = "dupLookup"
  /\ loc' = [loc EXCEPT ![p].lookupsFailed = @ + 1,
                        ![p].waits = IF loc[p].attempt < 3
                                     THEN Append(@, Delay(loc[p].attempt))
                                     ELSE @]
  /\ Goto(p, IF loc[p].attempt < 3 THEN "dupBackoff" ELSE "insert")
  /\ UNCHANGED <<requests, store, nextId, cache, queue, now, op, result, admitted, hist, boot, worker, hashes, calc>>

\* checkForDuplicate: the store query of one attempt, asked to compare
\* cron_expression with undefined. The postgres driver of db/index.ts rejects
\* a query with an undefined parameter; a driver that binds undefined as NULL
\* lets the query through, and then it is DupLookup that answers, with no row.
DupLookupUndefined(p) ==
  /\ op[p].fields.cronExpression = UNDEFINED
  /\ DupLookupFail(p)

\* checkForDuplicate: the backoff sleep ends, the next attempt starts.
DupBackoff(p) ==
  /\ pc[p] = "dupBackoff"
  /\ loc' = [loc EXCEPT ![p].attempt = @ + 1]
  /\ Goto(p, "dupLookup")
  /\ UNCHANGED <<requests, store, nextId, cache, queue, now, op, result, admitted, hist, boot, worker, hashes, calc>>

\* checkForDuplicate: client.get rejects. CacheService.get catches the
\* rejection and returns null, which is a miss.
DupCacheGetFail(p) ==
  /\ pc[p] = "dupCacheGet"
  /\ Goto(p, "dupLookup")
  /\ loc' = [loc EXCEPT ![p].attempt = 1, ![p].checkFaults = @ \cup {"get"}]
  /\ UNCHANGED <<requests, store, nextId, cache, queue, now, op, result, admitted, hist, boot, worker, hashes, calc>>

\* The undecodable cache value, had the error of JSON.parse left
\* checkForDuplicate.
DupCacheUndecodableRaises(p) ==
  /\ pc[p] = "dupCacheGet"
  /\ Finish(p, "CHECK_ERROR", NoRow)
  /\ loc' = [loc EXCEPT ![p].checkFaults = @ \cup {"decode"}]
  /\ UNCHANGED <<requests, store, nextId, cache, queue, now, op, admitted, hist, boot, worker, hashes, calc>>

\* checkForDuplicate: the cache answers with a value that JSON.parse or
\* mapDbRowToJob cannot take. The error is caught by the outer catch, which
\* returns null without asking the store, so createJob goes on to insert.
DupCacheUndecodable(p) ==
  /\ pc[p] = "dupCacheGet"
  /\ Goto(p, "insert")
  /\ loc' = [loc EXCEPT ![p].checkFaults = @ \cup {"decode"}]
  /\ UNCHANGED <<requests, store, nextId, cache, queue, now, op, result, admitted, hist, boot, worker, hashes, calc>>

\* checkForDuplicate: client.setEx rejects. CacheService.set catches the
\* rejection and returns false; the match is returned all the same.
DupCacheSetFail(p) ==
  /\ pc[p] = "dupCacheSet"
  /\ Finish(p, "DUPLICATE_JOB", loc[p].job)
  /\ loc' = [loc EXCEPT ![p].checkFaults = @ \cup {"set"}]
  /\ UNCHANGED <<requests, store, nextId, cache, queue, now, op, admitted, hist, boot, worker, hashes, calc>>

\* The inserted row, had createJob stored every job as enabled.
InsertDataEnabled(jobData, id, t) ==
  [id |-> id,
   name |-> jobData.name,
   frequency |-> frequencyToDbString(jobData.frequency),
   cronExpression |-> IF jobData.cronExpression = UNDEFINED THEN NULL
                      ELSE jobData.cronExpression,
   data |-> jobData.data,
   dataHash |-> generateJobHash(jobData),
   status |-> convertStatusToDbString(jobData.status),
   enabled |-> TRUE,
   startDate |-> jobData.startDate,
   endDate |-> jobData.endDate,
   lastRunAt |-> jobData.lastRunAt,
   nextRunAt |-> calculateNextRun(jobData, t),
   retryCount |-> jobData.retryCount]

\* The row createJob inserts. A property that is undefined is left out of the
\* INSERT, so the column takes its default: cron_expression becomes NULL.
InsertData(jobData, id, t) ==
  [id |-> id,
   name |-> jobData.name,
   frequency |-> frequencyToDbString(jobData.frequency),
   cronExpression |-> IF jobData.cronExpression = UNDEFINED THEN NULL
                      ELSE jobData.cronExpression,
   data |-> jobData.data,
   dataHash |-> generateJobHash(jobData),
   status |-> convertStatusToDbString(jobData.status),
   enabled |-> jobData.enabled,
   startDate |-> jobData.startDate,
   endDate |-> jobData.endDate,
   lastRunAt |-> jobData.lastRunAt,
   nextRunAt |-> calculateNextRun(jobData, t),
   retryCount |-> jobData.retryCount]

\* createJob: db.insert(jobs).values(insertData).returning(). The store
\* rejects the row when the unique index forbids it, and the rejection leaves
\* createJob as it is thrown.
Insert(p) ==
  /\ pc[p] = "insert"
  /\ LET row == InsertData(op[p].fields, nextId, now)
     IN IF duplicateCheckIdx(row)
        THEN /\ Finish(p, "UNIQUE_VIOLATION", NoRow)
             /\ UNCHANGED <<requests, store, nextId, loc>>
        ELSE /\ store' = [store EXCEPT ![nextId] = row]
             /\ nextId' = nextId + 1
             /\ loc' = MatchSeen([loc EXCEPT ![p].job = mapDbRowToJob(row)],
                                 [store EXCEPT ![nextId] = row])
             /\ Goto(p, "seed")
             /\ result' = result
  /\ UNCHANGED <<requests, cache, queue, now, op, admitted, hist, boot, worker, hashes, calc>>

\* createJob: the new job is cached under its fingerprint.
Seed(p) ==
  /\ pc[p] = "seed"
  /\ cache' = cacheSet(cache, DupKey(loc[p].job.dataHash), loc[p].job)
  /\ Goto(p, "schedule")
  /\ UNCHANGED <<requests, store, nextId, queue, now, op, loc, result, admitted, hist, boot, worker, hashes, calc>>

\* createJob: scheduleJob(safeJob).
CreateSchedule(p) ==
  /\ pc[p] = "schedule"
  /\ queue' = scheduleJob(queue, loc[p].job, now)
  /\ loc' = QueueCalls(p, IF Submits(loc[p].job, now) THEN 1 ELSE 0)
  /\ Goto(p, "invalidateLists")
  /\ UNCHANGED <<requests, store, nextId, cache, now, op, result, admitted, hist, boot, worker, hashes, calc>>

\* createJob: scheduleJob(safeJob) awaits queue.add and the queue rejects it.
\* Neither scheduleJob nor createJob catches the rejection: createJob throws
\* it, and the controller answers 500.
CreateScheduleFail(p) ==
  /\ pc[p] = "schedule"
  /\ Submits(loc[p].job, now)
  /\ Finish(p, "QUEUE_ERROR", NoRow)
  /\ hist' = [hist EXCEPT !.raised = @ \cup {loc[p].job.id}]
  /\ UNCHANGED <<requests, store, nextId, cache, queue, now, op, loc, admitted, boot, worker, hashes, calc>>

\* createJob: invalidateJobListCaches(), then the job is returned.
CreateReturn(p) ==
  /\ pc[p] = "invalidateLists"
  /\ cache' = invalidateJobListCaches(cache)
  /\ Finish(p, "ok", loc[p].job)
  /\ admitted' = [f \in AllFields |->
                    IF f = op[p].fields /\ ~op[p].force THEN loc[p].job.id
                    ELSE IF generateJobHash(f) = generateJobHash(op[p].fields) THEN 0
                    ELSE admitted[f]]
  /\ UNCHANGED <<requests, store, nextId, queue, now, op, loc, hist, boot, worker, hashes, calc>>

\* The response is sent; the request is over.
Respond(p) ==
  /\ pc[p] = "done"
  /\ pc' = [pc EXCEPT ![p] = "idle"]
  /\ op' = [op EXCEPT ![p] = NoOp]
  /\ loc' = [loc EXCEPT ![p] = NoLoc]
  /\ result' = [result EXCEPT ![p] = NoResult]
  /\ UNCHANGED <<requests, store, nextId, cache, queue, now, admitted, hist, boot, worker, hashes, calc>>

(***************************************************************************)
(* updateJob(id, jobData)                                                  *)
(***************************************************************************)
\* The partials of the runs: the worker's run-start and run-end updates at
\* instant t and a request body of PUT /jobs/:id that switches the job off.
Partials(t) ==
  {[status |-> "RUNNING", lastRunAt |-> t], [status |-> "COMPLETED", lastRunAt |-> t],
   [enabled |-> FALSE]}

\* updateData: the partial with its enums converted to store strings, and
\* nextRunAt computed from the partial when it carries a frequency.
UpdateData(jobData, t) ==
  LET keys == DOMAIN jobData \cup
              (IF "frequency" \in DOMAIN jobData THEN {"nextRunAt"} ELSE {})
  IN [k \in keys |->
        CASE k = "frequency" -> frequencyToDbString(jobData.frequency)
          [] k = "status" -> convertStatusToDbString(jobData.status)
          [] k = "nextRunAt" -> calculateNextRun(jobData, t)
          [] OTHER -> jobData[k]]

\* UPDATE jobs SET ... WHERE id = ... RETURNING *
SetRow(row, updateData) ==
  [k \in DOMAIN row |-> IF k \in DOMAIN updateData THEN updateData[k] ELSE row[k]]

UpdateJob(p, id, partial) ==
  /\ Arrive(p)
  /\ op' = [op EXCEPT ![p] = [NoOp EXCEPT !.kind = "update", !.id = id,
                                          !.partial = partial]]
  /\ Goto(p, "updDb")
  /\ admitted' = [f \in AllFields |-> 0]
  /\ UNCHANGED <<store, nextId, cache, queue, now, loc, result, hist, boot, worker, hashes, calc>>

\* The UPDATE of a missing id, had updateJob invalidated the caches before
\* looking at the result.
UpdDbInvalidatesFirst(p) ==
  /\ pc[p] = "updDb"
  /\ LET id == op[p].id
         row == SetRow(store[id], UpdateData(op[p].partial, now))
     IN IF store[id] # NoRow
        THEN /\ store' = [store EXCEPT ![id] = row]
             /\ loc' = [loc EXCEPT ![p].job = mapDbRowToJob(row)]
             /\ Goto(p, "updRemove")
             /\ result' = result
             /\ cache' = cache
        ELSE /\ Finish(p, "null", NoRow)
             /\ cache' = invalidateAllJobCaches(cache, id)
             /\ UNCHANGED <<requests, store, loc>>
  /\ UNCHANGED <<requests, nextId, queue, now, op, admitted, hist, boot, worker, hashes, calc>>

\* updateJob: the UPDATE answers; no row means null is returned.
UpdDb(p) ==
  /\ pc[p] = "updDb"
  /\ LET id == op[p].id
         row == SetRow(store[id], UpdateData(op[p].partial, now))
     IN IF store[id] # NoRow
        THEN /\ store' = [store EXCEPT ![id] = row]
             /\ loc' = MatchSeen([loc EXCEPT ![p].job = mapDbRowToJob(row)],
                                 [store EXCEPT ![id] = row])
             /\ Goto(p, "updRemove")
             /\ result' = result
        ELSE /\ Finish(p, "null", NoRow)
             /\ UNCHANGED <<requests, store, loc>>
  /\ UNCHANGED <<requests, nextId, cache, queue, now, op, admitted, hist, boot, worker, hashes, calc>>

\* updateJob: queue.removeJobScheduler(`job-${id}`)
UpdRemove(p) ==
  /\ pc[p] = "updRemove"
  /\ queue' = removeJobScheduler(queue, JobName(op[p].id))
  /\ loc' = QueueCalls(p, 1)
  /\ Goto(p, "updInvalidate")
  /\ UNCHANGED <<requests, store, nextId, cache, now, op, result, admitted, hist, boot, worker, hashes, calc>>

\* updateJob: cacheService.invalidateAllJobCaches(id)
UpdInvalidate(p) ==
  /\ pc[p] = "updInvalidate"
  /\ cache' = invalidateAllJobCaches(cache, op[p].id)
  /\ Goto(p, "updSchedule")
  /\ UNCHANGED <<requests, store, nextId, queue, now, op, loc, result, admitted, hist, boot, worker, hashes, calc>>

\* updateJob: scheduleJob(safeJob), then the job is returned.
UpdSchedule(p) ==
  /\ pc[p] = "updSchedule"
  /\ queue' = scheduleJob(queue, loc[p].job, now)
  /\ loc' = QueueCalls(p, IF Submits(loc[p].job, now) THEN 1 ELSE 0)
  /\ Finish(p, "ok", loc[p].job)
  /\ UNCHANGED <<requests, store, nextId, cache, now, op, admitted, hist, boot, worker, hashes, calc>>

(***************************************************************************)
(* deleteJob(id)                                                           *)
(***************************************************************************)
DeleteJob(p, id) ==
  /\ Arrive(p)
  /\ op' = [op EXCEPT ![p] = [NoOp EXCEPT !.kind = "delete", !.id = id]]
  /\ Goto(p, "delDb")
  /\ admitted' = [f \in AllFields |-> 0]
  /\ UNCHANGED <<store, nextId, cache, queue, now, loc, result, hist, boot, worker, hashes, calc>>

\* deleteJob: the DELETE answers; no row means false is returned.
DelDb(p) ==
  /\ pc[p] = "delDb"
  /\ LET id == op[p].id
     IN IF store[id] # NoRow
        THEN /\ store' = [store EXCEPT ![id] = NoRow]
             /\ loc' = [loc EXCEPT ![p].job = mapDbRowToJob(store[id])]
             /\ Goto(p, "delRemove")
             /\ result' = result
        ELSE /\ Finish(p, "false", NoRow)
             /\ UNCHANGED <<requests, store, loc>>
  /\ UNCHANGED <<requests, nextId, cache, queue, now, op, admitted, hist, boot, worker, hashes, calc>>

\* deleteJob: queue.removeJobScheduler(`job-${id}`)
DelRemove(p) ==
  /\ pc[p] = "delRemove"
  /\ queue' = removeJobScheduler(queue, JobName(op[p].id))
  /\ loc' = QueueCalls(p, 1)
  /\ Goto(p, "delInvalidate")
  /\ UNCHANGED <<requests, store, nextId, cache, now, op, result, admitted, hist, boot, worker, hashes, calc>>

\* deleteJob's invalidation, had it left the job:duplicate:* keys alone.
DelInvalidateKeepsDuplicates(p) ==
  /\ pc[p] = "delInvalidate"
  /\ cache' = cacheDel(cache, {"job", "jobs:all", "jobs:upcoming"})
  /\ Finish(p, "true", loc[p].job)
  /\ hist' = [hist EXCEPT !.deleted = @ \cup {loc[p].job.dataHash}]
  /\ UNCHANGED <<requests, store, nextId, queue, now, op, loc, admitted, boot, worker, hashes, calc>>

\* deleteJob: cacheService.invalidateAllJobCaches(id), then true is returned.
DelInvalidate(p) ==
  /\ pc[p] = "delInvalidate"
  /\ cache' = invalidateAllJobCaches(cache, op[p].id)
  /\ Finish(p, "true", loc[p].job)
  /\ hist' = [hist EXCEPT !.deleted = @ \cup {loc[p].job.dataHash}]
  /\ UNCHANGED <<requests, store, nextId, queue, now, op, loc, admitted, boot, worker, hashes, calc>>

(***************************************************************************)
(* enableJob(id) and disableJob(id)                                        *)
(***************************************************************************)
EnableJob(p, id) ==
  /\ Arrive(p)
  /\ op' = [op EXCEPT ![p] = [NoOp EXCEPT !.kind = "enable", !.id = id]]
  /\ Goto(p, "enDb")
  /\ UNCHANGED <<store, nextId, cache, queue, now, loc, result, admitted, hist, boot, worker, hashes, calc>>

\* The UPDATE of enableJob, had it put the job back to pending as well.
EnDbResetsStatus(p) ==
  /\ pc[p] = "enDb"
  /\ LET id == op[p].id
         row == SetRow(store[id], [enabled |-> TRUE, status |-> "pending"])
     IN IF store[id] # NoRow
        THEN /\ store' = [store EXCEPT ![id] = row]
             /\ loc' = [loc EXCEPT ![p].job = mapDbRowToJob(row)]
             /\ Goto(p, "enInvalidate")
             /\ result' = result
        ELSE /\ Finish(p, "null", NoRow)
             /\ UNCHANGED <<requests, store, loc>>
  /\ UNCHANGED <<requests, nextId, cache, queue, now, op, admitted, hist, boot, worker, hashes, calc>>

\* enableJob: UPDATE jobs SET enabled = true; no row means null is returned.
EnDb(p) ==
  /\ pc[p] = "enDb"
  /\ LET id == op[p].id
         row == SetRow(store[id], [enabled |-> TRUE])
     IN IF store[id] # NoRow
        THEN /\ store' = [store EXCEPT ![id] = row]
             /\ loc' = [loc EXCEPT ![p].job = mapDbRowToJob(row)]
             /\ Goto(p, "enInvalidate")
             /\ result' = result
        ELSE /\ Finish(p, "null", NoRow)
             /\ UNCHANGED <<requests, store, loc>>
  /\ UNCHANGED <<requests, nextId, cache, queue, now, op, admitted, hist, boot, worker, hashes, calc>>

\* enableJob's invalidation step, had the status check been left out.
EnInvalidateAnyStatus(p) ==
  /\ pc[p] = "enInvalidate"
  /\ cache' = invalidateAllJobCaches(cache, op[p].id)
  /\ Goto(p, "enSchedule")
  /\ UNCHANGED <<requests, store, nextId, queue, now, op, loc, result, admitted, hist, boot, worker, hashes, calc>>

\* enableJob: invalidateAllJobCaches(id); a job that is not PENDING is
\* returned without being scheduled.
EnInvalidate(p) ==
  /\ pc[p] = "enInvalidate"
  /\ cache' = invalidateAllJobCaches(cache, op[p].id)
  /\ IF loc[p].job.status = "PENDING"
     THEN Goto(p, "enSchedule") /\ result' = result
     ELSE Finish(p, "ok", loc[p].job)
  /\ UNCHANGED <<requests, store, nextId, queue, now, op, loc, admitted, hist, boot, worker, hashes, calc>>

\* enableJob: scheduleJob(safeJob), then the job is returned.
EnSchedule(p) ==
  /\ pc[p] = "enSchedule"
  /\ queue' = scheduleJob(queue, loc[p].job, now)
  /\ loc' = QueueCalls(p, IF Submits(loc[p].job, now) THEN 1 ELSE 0)
  /\ Finish(p, "ok", loc[p].job)
  /\ UNCHANGED <<requests, store, nextId, cache, now, op, admitted, hist, boot, worker, hashes, calc>>

DisableJob(p, id) ==
  /\ Arrive(p)
  /\ op' = [op EXCEPT ![p] = [NoOp EXCEPT !.kind = "disable", !.id = id]]
  /\ Goto(p, "disDb")
  /\ UNCHANGED <<store, nextId, cache, queue, now, loc, result, admitted, hist, boot, worker, hashes, calc>>

\* disableJob: UPDATE jobs SET enabled = false; no row means null is returned.
DisDb(p) ==
  /\ pc[p] = "disDb"
  /\ LET id == op[p].id
         row == SetRow(store[id], [enabled |-> FALSE])
     IN IF store[id] # NoRow
        THEN /\ store' = [store EXCEPT ![id] = row]
             /\ loc' = [loc EXCEPT ![p].job = mapDbRowToJob(row)]
             /\ Goto(p, "disRemove")
             /\ result' = result
        ELSE /\ Finish(p, "null", NoRow)
             /\ UNCHANGED <<requests, store, loc>>
  /\ UNCHANGED <<requests, nextId, cache, queue, now, op, admitted, hist, boot, worker, hashes, calc>>

\* disableJob: queue.removeJobScheduler(`job-${id}`)
DisRemove(p) ==
  /\ pc[p] = "disRemove"
  /\ queue' = removeJobScheduler(queue, JobName(op[p].id))
  /\ loc' = QueueCalls(p, 1)
  /\ Goto(p, "disInvalidate")
  /\ UNCHANGED <<requests, store, nextId, cache, now, op, result, admitted, hist, boot, worker, hashes, calc>>

\* disableJob: invalidateAllJobCaches(id), then the job is returned.
DisInvalidate(p) ==
  /\ pc[p] = "disInvalidate"
  /\ cache' = invalidateAllJobCaches(cache, op[p].id)
  /\ Finish(p, "ok", loc[p].job)
  /\ UNCHANGED <<requests, store, nextId, queue, now, op, loc, admitted, hist, boot, worker, hashes, calc>>

(***************************************************************************)
(* The steps that call the cache, when Redis cannot be reached: the client *)
(* call rejects, CacheService catches the rejection, and get answers null, *)
(* set answers false, the invalidations answer nothing. hist.working       *)
(* follows what the calls would have left in a Redis that works.           *)
(***************************************************************************)
\* checkForDuplicate: cacheService.get answers null.
DownDupCacheGet(p) ==
  /\ pc[p] = "dupCacheGet"
  /\ Goto(p, "dupLookup")
  /\ loc' = [loc EXCEPT ![p].attempt = 1,
                        ![p].checkFaults = @ \cup {"get"},
                        ![p].missedHit =
                           DupKey(generateJobHash(op[p].fields)) \in DOMAIN hist.working]
  /\ UNCHANGED <<requests, store, nextId, cache, queue, now, op, result, admitted, hist, boot, worker, hashes, calc>>

\* checkForDuplicate: cacheService.set answers false; the match is returned.
DownDupCacheSet(p) ==
  /\ pc[p] = "dupCacheSet"
  /\ Finish(p, "DUPLICATE_JOB", loc[p].job)
  /\ loc' = [loc EXCEPT ![p].checkFaults = @ \cup {"set"}]
  /\ hist' = [hist EXCEPT !.working =
                 cacheSet(@, DupKey(generateJobHash(op[p].fields)), loc[p].job)]
  /\ UNCHANGED <<requests, store, nextId, cache, queue, now, op, admitted, boot, worker, hashes, calc>>

\* createJob: cacheService.set answers false.
DownSeed(p) ==
  /\ pc[p] = "seed"
  /\ Goto(p, "schedule")
  /\ hist' = [hist EXCEPT !.working =
                 cacheSet(@, DupKey(loc[p].job.dataHash), loc[p].job)]
  /\ UNCHANGED <<requests, store, nextId, cache, queue, now, op, loc, result, admitted, boot, worker, hashes, calc>>

\* createJob: invalidateJobListCaches() answers, then the job is returned.
DownCreateReturn(p) ==
  /\ pc[p] = "invalidateLists"
  /\ Finish(p, "ok", loc[p].job)
  /\ hist' = [hist EXCEPT !.working = invalidateJobListCaches(@)]
  /\ admitted' = [f \in AllFields |->
                    IF f = op[p].fields /\ ~op[p].force THEN loc[p].job.id
                    ELSE IF generateJobHash(f) = generateJobHash(op[p].fields) THEN 0
                    ELSE admitted[f]]
  /\ UNCHANGED <<requests, store, nextId, cache, queue, now, op, loc, boot, worker, hashes, calc>>

\* updateJob: invalidateAllJobCaches(id) answers.
DownUpdInvalidate(p) ==
  /\ pc[p] = "updInvalidate"
  /\ Goto(p, "updSchedule")
  /\ hist' = [hist EXCEPT !.working = invalidateAllJobCaches(@, op[p].id)]
  /\ UNCHANGED <<requests, store, nextId, cache, queue, now, op, loc, result, admitted, boot, worker, hashes, calc>>

\* deleteJob: invalidateAllJobCaches(id) answers, then true is returned.
DownDelInvalidate(p) ==
  /\ pc[p] = "delInvalidate"
  /\ Finish(p, "true", loc[p].job)
  /\ hist' = [hist EXCEPT !.deleted = @ \cup {loc[p].job.dataHash},
                          !.working = invalidateAllJobCaches(@, op[p].id)]
  /\ UNCHANGED <<requests, store, nextId, cache, queue, now, op, loc, admitted, boot, worker, hashes, calc>>

\* enableJob: invalidateAllJobCaches(id) answers; a job that is not PENDING
\* is returned without being scheduled.
DownEnInvalidate(p) ==
  /\ pc[p] = "enInvalidate"
  /\ IF loc[p].job.status = "PENDING"
     THEN Goto(p, "enSchedule") /\ result' = result
     ELSE Finish(p, "ok", loc[p].job)
  /\ hist' = [hist EXCEPT !.working = invalidateAllJobCaches(@, op[p].id)]
  /\ UNCHANGED <<requests, store, nextId, cache, queue, now, op, loc, admitted, boot, worker, hashes, calc>>

\* disableJob: invalidateAllJobCaches(id) answers, then the job is returned.
DownDisInvalidate(p) ==
  /\ pc[p] = "disInvalidate"
  /\ Finish(p, "ok", loc[p].job)
  /\ hist' = [hist EXCEPT !.working = invalidateAllJobCaches(@, op[p].id)]
  /\ UNCHANGED <<requests, store, nextId, cache, queue, now, op, loc, admitted, boot, worker, hashes, calc>>

(***************************************************************************)
(* getJobById(id)                                                          *)
(***************************************************************************)
GetJobById(p, id) ==
  /\ Arrive(p)
  /\ op' = [op EXCEPT ![p] = [NoOp EXCEPT !.kind = "get", !.id = id]]
  /\ Goto(p, "getCache")
  /\ UNCHANGED <<store, nextId, cache, queue, now, loc, result, admitted, hist, boot, worker, hashes, calc>>

\* getJobById: cacheService.get(job:<id>); a hit is returned at once.
GetCache(p) ==
  /\ pc[p] = "getCache"
  /\ LET cachedJob == cacheGet(JobKey(op[p].id))
     IN IF cachedJob # NoRow
        THEN Finish(p, "ok", mapDbRowToJob(cachedJob))
        ELSE Goto(p, "getDb") /\ result' = result
  /\ UNCHANGED <<requests, store, nextId, cache, queue, now, op, loc, admitted, hist, boot, worker, hashes, calc>>

\* getJobById: the SELECT answers; no row means null is returned.
GetDb(p) ==
  /\ pc[p] = "getDb"
  /\ LET id == op[p].id
     IN IF store[id] = NoRow
        THEN /\ Finish(p, "null", NoRow)
             /\ loc' = loc
        ELSE /\ loc' = [loc EXCEPT ![p].job = mapDbRowToJob(store[id])]
             /\ Goto(p, "getCacheSet")
             /\ result' = result
  /\ UNCHANGED <<requests, store, nextId, cache, queue, now, op, admitted, hist, boot, worker, hashes, calc>>

\* getJobById: the job is cached under job:<id> and returned.
GetCacheSet(p) ==
  /\ pc[p] = "getCacheSet"
  /\ cache' = cacheSet(cache, JobKey(op[p].id), loc[p].job)
  /\ Finish(p, "ok", loc[p].job)
  /\ UNCHANGED <<requests, store, nextId, queue, now, op, loc, admitted, hist, boot, worker, hashes, calc>>

(***************************************************************************)
(* incrementRetryCount(id): getJobById(id), whose steps are the steps      *)
(* above, then an UPDATE that writes the count that was read plus one.     *)
(***************************************************************************)
IncrementRetryCount(p, id) ==
  /\ Arrive(p)
  /\ op' = [op EXCEPT ![p] = [NoOp EXCEPT !.kind = "retry", !.id = id]]
  /\ Goto(p, "getCache")
  /\ admitted' = [f \in AllFields |-> 0]
  /\ UNCHANGED <<store, nextId, cache, queue, now, loc, result, hist, boot, worker, hashes, calc>>

\* incrementRetryCount: getJobById has returned current. Without a job null
\* is returned; otherwise UPDATE jobs SET retry_count = current.retryCount
\* + 1 WHERE id = ..., and no row means null is returned.
IncDb(p) ==
  /\ pc[p] = "done"
  /\ op[p].kind = "retry"
  /\ result[p].kind \in {"ok", "null"}
  /\ LET id == op[p].id
         current == result[p].job
         row == SetRow(store[id], [retryCount |-> current.retryCount + 1])
     IN IF result[p].kind = "null"
        THEN UNCHANGED <<store, pc, loc, result>>
        ELSE IF store[id] # NoRow
             THEN /\ store' = [store EXCEPT ![id] = row]
                  /\ loc' = [loc EXCEPT ![p].job = mapDbRowToJob(row)]
                  /\ Goto(p, "incInvalidate")
                  /\ result' = [result EXCEPT ![p] = NoResult]
             ELSE /\ Finish(p, "null", NoRow)
                  /\ UNCHANGED <<store, loc>>
  /\ UNCHANGED <<requests, nextId, cache, queue, now, op, admitted, hist, boot, worker, hashes, calc>>

\* incrementRetryCount: invalidateAllJobCaches(id), and the job is returned.
IncInvalidate(p) ==
  /\ pc[p] = "incInvalidate"
  /\ cache' = invalidateAllJobCaches(cache, op[p].id)
  /\ Finish(p, "incremented", loc[p].job)
  /\ UNCHANGED <<requests, store, nextId, queue, now, op, loc, admitted, hist, boot, worker, hashes, calc>>

(***************************************************************************)
(* The BullMQ worker: JobWorker.processJob and JobWorker.onJobFailed. The  *)
(* worker calls getJobById and updateJob of the service; their steps are   *)
(* the steps of the caller "w".                                            *)
(***************************************************************************)
\* What a call of the service throws when the store or the queue rejects.
Thrown == {"STORE_ERROR", "QUEUE_ERROR"}

\* The worker's caller slot starts a call of the service, or is cleared.
WorkerCalls(operation, label) ==
  /\ pc' = [pc EXCEPT !["w"] = label]
  /\ op' = [op EXCEPT !["w"] = operation]
  /\ loc' = [loc EXCEPT !["w"] = NoLoc]
  /\ result' = [result EXCEPT !["w"] = NoResult]

\* The queue once the worker is through with its entry: a one-shot job is
\* kept as completed, or goes back to delayed for its next attempt.
EntryBecomes(q, kind) ==
  IF worker.entry \in q /\ worker.entry.kind = "active"
  THEN (q \ {worker.entry}) \cup {[worker.entry EXCEPT !.kind = kind]}
  ELSE q

\* BullMQ hands a due delayed job, or an occurrence of a repeatable job, to
\* processJob, which calls getJobById(job.id).
WorkerDispatch ==
  /\ worker.stage = "idle"
  /\ pc["w"] = "idle"
  /\ requests < MaxRequests
  /\ requests' = requests + 1
  /\ \E e \in queue :
       /\ e.kind = "repeat" \/ (e.kind = "delayed" /\ e.at <= now)
       /\ queue' = IF e.kind = "delayed"
                   THEN (queue \ {e}) \cup {[e EXCEPT !.kind = "active"]}
                   ELSE queue
       /\ worker' = [stage |-> "check", id |-> e.jobId,
                     entry |-> IF e.kind = "delayed" THEN [e EXCEPT !.kind = "active"]
                               ELSE e,
                     disabledAtCheck |-> ~store[e.jobId].enabled]
       /\ WorkerCalls([NoOp EXCEPT !.kind = "get", !.id = e.jobId], "getCache")
  /\ UNCHANGED <<store, nextId, cache, now, admitted, hist, boot, hashes, calc>>

\* processJob: getJobById has returned. A missing or disabled job is
\* skipped (the entry completes, onJobCompleted invalidates the list
\* caches); otherwise updateJob(id, {status: RUNNING, lastRunAt}) is called.
WorkerCheck ==
  /\ worker.stage = "check"
  /\ pc["w"] = "done"
  /\ IF result["w"].kind = "null" \/ ~result["w"].job.enabled
     THEN /\ worker' = [worker EXCEPT !.stage = "idle"]
          /\ WorkerCalls(NoOp, "idle")
          /\ queue' = EntryBecomes(queue, "completed")
          /\ cache' = invalidateJobListCaches(cache)
     ELSE /\ worker' = [worker EXCEPT !.stage = "running"]
          /\ WorkerCalls([NoOp EXCEPT !.kind = "update", !.id = worker.id,
                                      !.partial = [status |-> "RUNNING",
                                                   lastRunAt |-> now]], "updDb")
          /\ UNCHANGED <<queue, cache>>
  /\ UNCHANGED <<store, nextId, now, requests, admitted, hist, boot, hashes, calc>>

\* processJob: the run-start update has returned; invalidateJobListCaches(),
\* then executeJob(currentJob) runs the payload.
WorkerExecute ==
  /\ worker.stage = "running"
  /\ pc["w"] = "done"
  /\ result["w"].kind \notin Thrown
  /\ worker' = [worker EXCEPT !.stage = "executing"]
  /\ WorkerCalls(NoOp, "idle")
  /\ cache' = invalidateJobListCaches(cache)
  /\ UNCHANGED <<store, nextId, queue, now, requests, admitted, hist, boot, hashes, calc>>

\* processJob: the payload is through;
\* updateJob(id, {status: COMPLETED, lastRunAt}) is called.
WorkerComplete ==
  /\ worker.stage = "executing"
  /\ worker' = [worker EXCEPT !.stage = "completing"]
  /\ WorkerCalls([NoOp EXCEPT !.kind = "update", !.id = worker.id,
                              !.partial = [status |-> "COMPLETED",
                                           lastRunAt |-> now]], "updDb")
  /\ UNCHANGED <<store, nextId, cache, queue, now, requests, admitted, hist, boot, hashes, calc>>

\* processJob: the run-end update has returned; invalidateJobListCaches(),
\* processJob returns and the entry completes.
WorkerReturn ==
  /\ worker.stage = "completing"
  /\ pc["w"] = "done"
  /\ result["w"].kind \notin Thrown
  /\ worker' = [worker EXCEPT !.stage = "idle"]
  /\ WorkerCalls(NoOp, "idle")
  /\ queue' = EntryBecomes(queue, "completed")
  /\ cache' = invalidateJobListCaches(cache)
  /\ UNCHANGED <<store, nextId, now, requests, admitted, hist, boot, hashes, calc>>

\* The failure callback, had it not updated the job.
WorkerFailedSkipsUpdate ==
  /\ worker.stage \in {"running", "completing"}
  /\ pc["w"] = "done"
  /\ result["w"].kind \in Thrown
  /\ worker' = [worker EXCEPT !.stage = "idle"]
  /\ WorkerCalls(NoOp, "idle")
  /\ queue' = EntryBecomes(queue, "delayed")
  /\ UNCHANGED <<store, nextId, cache, now, requests, admitted, hist, boot, hashes, calc>>

\* An updateJob of processJob has thrown, so processJob rejects; BullMQ
\* emits 'failed' and keeps the job for its next attempt; onJobFailed calls
\* updateJob(id, {status: FAILED}).
WorkerFailed ==
  /\ worker.stage \in {"running", "completing"}
  /\ pc["w"] = "done"
  /\ result["w"].kind \in Thrown
  /\ worker' = [worker EXCEPT !.stage = "failing"]
  /\ WorkerCalls([NoOp EXCEPT !.kind = "update", !.id = worker.id,
                              !.partial = [status |-> "FAILED"]], "updDb")
  /\ queue' = EntryBecomes(queue, "delayed")
  /\ UNCHANGED <<store, nextId, cache, now, requests, admitted, hist, boot, hashes, calc>>

\* onJobFailed: its updateJob is through; invalidateJobListCaches().
WorkerFailedReturn ==
  /\ worker.stage = "failing"
  /\ pc["w"] = "done"
  /\ worker' = [worker EXCEPT !.stage = "idle"]
  /\ WorkerCalls(NoOp, "idle")
  /\ cache' = invalidateJobListCaches(cache)
  /\ UNCHANGED <<store, nextId, queue, now, requests, admitted, hist, boot, hashes, calc>>

(***************************************************************************)
(* Startup: initializeServices of index.ts, with initializeJobs.           *)
(***************************************************************************)
\* initializeJobs' query, had it selected every enabled job.
InitLoadAnyStatus ==
  /\ boot.phase = "initializing"
  /\ boot' = [boot EXCEPT !.phase = "scheduling",
                          !.activeJobs = {r \in Rows : r.enabled}]
  /\ UNCHANGED <<store, nextId, cache, queue, now, pc, op, loc, result, requests,
                 admitted, hist, worker, hashes, calc>>

\* initializeJobs: SELECT ... WHERE status = 'pending' AND enabled = true
InitLoad ==
  /\ boot.phase = "initializing"
  /\ boot' = [boot EXCEPT
                !.phase = "scheduling",
                !.activeJobs =
                   {r \in Rows : /\ r.status = convertStatusToDbString("PENDING")
                                 /\ r.enabled}]
  /\ UNCHANGED <<store, nextId, cache, queue, now, pc, op, loc, result, requests,
                 admitted, hist, worker, hashes, calc>>

\* initializeJobs: one turn of the loop, scheduleJob(job). The query has no
\* ORDER BY, so the jobs come in any order.
InitSchedule ==
  /\ boot.phase = "scheduling"
  /\ \E row \in boot.activeJobs :
       LET job == mapDbRowToJob(row)
       IN /\ queue' = scheduleJob(queue, job, now)
          /\ boot' = [boot EXCEPT
                        !.activeJobs = @ \ {row},
                        !.scheduled = @ \cup {job.id},
                        !.submitted = IF Submits(job, now) THEN @ \cup {job.id} ELSE @]
  /\ UNCHANGED <<store, nextId, cache, now, pc, op, loc, result, requests,
                 admitted, hist, worker, hashes, calc>>

\* initializeJobs: the query or a queue.add rejects; initializeJobs throws
\* and initializeServices ends the process with exit code 1.
InitFail ==
  /\ \/ boot.phase = "initializing"
     \/ /\ boot.phase = "scheduling"
        /\ \E row \in boot.activeJobs : Submits(mapDbRowToJob(row), now)
  /\ boot' = [boot EXCEPT !.phase = "aborted", !.failed = TRUE]
  /\ UNCHANGED <<store, nextId, cache, queue, now, pc, op, loc, result, requests,
                 admitted, hist, worker, hashes, calc>>

\* initializeServices: initializeJobs has returned; app.listen(PORT).
Listen ==
  /\ boot.phase = "scheduling"
  /\ boot.activeJobs = {}
  /\ boot' = [boot EXCEPT !.phase = "listening"]
  /\ UNCHANGED <<store, nextId, cache, queue, now, pc, op, loc, result, requests,
                 admitted, hist, worker, hashes, calc>>

(***************************************************************************)
(* The environment.                                                        *)
(***************************************************************************)
\* Time passes.
Tick ==
  /\ now < MaxNow
  /\ now' = now + 1
  /\ UNCHANGED <<requests, store, nextId, cache, queue, pc, op, loc, result, admitted, hist, boot, worker, hashes, calc>>

\* A cache entry reaches its TTL (every entry is written with setEx).
CacheExpire ==
  /\ \E key \in DOMAIN cache :
       cache' = [k \in DOMAIN cache \ {key} |-> cache[k]]
  /\ UNCHANGED <<requests, store, nextId, queue, now, pc, op, loc, result, admitted, hist, boot, worker, hashes, calc>>

\* The failed write, had the handler caught the rejection and answered null.
StoreWriteFailCaught(p) ==
  /\ pc[p] \in {"insert", "updDb", "delDb", "enDb", "disDb"}
  /\ Finish(p, "null", NoRow)
  /\ loc' = [loc EXCEPT ![p].writeFailed = TRUE]
  /\ UNCHANGED <<requests, store, nextId, cache, queue, now, op, admitted, hist, boot, worker, hashes, calc>>

\* updateJob: the queue rejects removeJobScheduler, or the queue.add of
\* scheduleJob. updateJob does not catch the rejection; the UPDATE has been
\* written.
UpdQueueFail(p) ==
  /\ \/ pc[p] = "updRemove"
     \/ pc[p] = "updSchedule" /\ Submits(loc[p].job, now)
  /\ Finish(p, "QUEUE_ERROR", NoRow)
  /\ UNCHANGED <<requests, store, nextId, cache, queue, now, op, loc, admitted, hist, boot, worker, hashes, calc>>

\* The store fails an INSERT, UPDATE or DELETE. None of the handlers catches
\* the rejection, so it leaves the handler as it is thrown.
StoreWriteFail(p) ==
  /\ pc[p] \in {"insert", "updDb", "delDb", "enDb", "disDb"}
  /\ Finish(p, "STORE_ERROR", NoRow)
  /\ loc' = [loc EXCEPT ![p].writeFailed = TRUE]
  /\ UNCHANGED <<requests, store, nextId, cache, queue, now, op, admitted, hist, boot, worker, hashes, calc>>

(***************************************************************************)
(* Specifications.                                                         *)
(***************************************************************************)
\* The steps of the handlers once a request is in.
Handle(p) ==
  \/ DupCacheGet(p) \/ DupLookup(p) \/ DupCacheSet(p)
  \/ Insert(p) \/ Seed(p) \/ CreateSchedule(p) \/ CreateReturn(p)
  \/ UpdDb(p) \/ UpdRemove(p) \/ UpdInvalidate(p) \/ UpdSchedule(p)
  \/ DelDb(p) \/ DelRemove(p) \/ DelInvalidate(p)
  \/ EnDb(p) \/ EnInvalidate(p) \/ EnSchedule(p)
  \/ DisDb(p) \/ DisRemove(p) \/ DisInvalidate(p)
  \/ Respond(p)

\* The steps of getJobById.
HandleGet(p) ==
  \/ GetCache(p) \/ GetDb(p) \/ GetCacheSet(p)

\* The field sets of the sequential runs: a one-shot job that is still to
\* start, a one-shot job whose start has passed, a recurring job and a cron
\* job.
SeqFields ==
  {Fields("a", "ONCE", NULL, TRUE, 2), Fields("a", "ONCE", NULL, FALSE, 1),
   Fields("a", "DAILY", NULL, TRUE, 1), Fields("a", "CUSTOM", "c1", TRUE, 1)}

\* One client, one request at a time, every dependency healthy.
NextSeq ==
  \/ \E f \in SeqFields, force \in BOOLEAN : CreateJob("p1", f, force)
  \/ \E id \in Ids, partial \in Partials(now) : UpdateJob("p1", id, partial)
  \/ \E id \in Ids : DeleteJob("p1", id)
  \/ \E id \in Ids : EnableJob("p1", id)
  \/ \E id \in Ids : DisableJob("p1", id)
  \/ \E id \in Ids : GetJobById("p1", id)
  \/ Handle("p1")
  \/ HandleGet("p1")
  \/ Tick
  \/ CacheExpire

Spec == Init /\ [][NextSeq]_vars

\* The steps of checkForDuplicate when the store lookup fails.
HandleLookupFault(p) ==
  \/ DupLookupFail(p) \/ DupBackoff(p)

\* The steps of checkForDuplicate when the cache fails.
HandleCacheFault(p) ==
  \/ DupCacheGetFail(p) \/ DupCacheUndecodable(p) \/ DupCacheSetFail(p)

\* The field sets of the runs with faults and of the concurrent runs.
RaceFields ==
  {Fields("a", "ONCE", NULL, TRUE, 2), Fields("a", "CUSTOM", "c1", TRUE, 1)}

\* One client, one request at a time; the duplicate lookup, the cache calls
\* of the duplicate check and the store's writes may fail.
NextFault ==
  \/ \E f \in RaceFields, force \in BOOLEAN : CreateJob("p1", f, force)
  \/ \E id \in Ids, partial \in Partials(now) : UpdateJob("p1", id, partial)
  \/ \E id \in Ids : DeleteJob("p1", id)
  \/ \E id \in Ids : EnableJob("p1", id)
  \/ \E id \in Ids : DisableJob("p1", id)
  \/ Handle("p1")
  \/ HandleLookupFault("p1")
  \/ HandleCacheFault("p1")
  \/ StoreWriteFail("p1")

SpecFault == Init /\ [][NextFault]_vars

\* Two clients whose requests interleave at every await; every dependency
\* healthy, no create is forced.
NextConc ==
  \E p \in Procs :
    \/ \E f \in RaceFields : CreateJob(p, f, FALSE)
    \/ \E id \in Ids, partial \in Partials(now) : UpdateJob(p, id, partial)
    \/ \E id \in Ids : DeleteJob(p, id)
    \/ \E id \in Ids : EnableJob(p, id)
    \/ \E id \in Ids : DisableJob(p, id)
    \/ Handle(p)

SpecConc == Init /\ [][NextConc]_vars

\* The steps of a forced createJob, of updateJob and of disableJob.
HandleInsert(p) ==
  \/ Insert(p) \/ Seed(p) \/ CreateSchedule(p) \/ CreateReturn(p)

HandleUpdate(p) ==
  \/ UpdDb(p) \/ UpdRemove(p) \/ UpdInvalidate(p) \/ UpdSchedule(p)

HandleDisable(p) ==
  \/ DisDb(p) \/ DisRemove(p) \/ DisInvalidate(p)

\* The jobs of the runs with the worker: a recurring job and a one-shot job
\* that is still to start.
WorkerFields ==
  {Fields("a", "DAILY", NULL, TRUE, 1), Fields("a", "ONCE", NULL, TRUE, 2)}

\* One client that creates, reads and disables jobs, one request at a time,
\* and the worker; the store may fail the worker's updates.
NextWorker ==
  \/ \E f \in WorkerFields : CreateJob("p1", f, TRUE)
  \/ \E id \in Ids : DisableJob("p1", id)
  \/ \E id \in Ids : GetJobById("p1", id)
  \/ HandleInsert("p1")
  \/ HandleDisable("p1")
  \/ HandleGet("p1")
  \/ Respond("p1")
  \/ WorkerDispatch
  \/ HandleGet("w")
  \/ WorkerCheck
  \/ HandleUpdate("w")
  \/ StoreWriteFail("w")
  \/ WorkerExecute
  \/ WorkerComplete
  \/ WorkerReturn
  \/ WorkerFailed
  \/ WorkerFailedReturn
  \/ Tick

SpecWorker == Init /\ [][NextWorker]_vars

\* The jobs createJob has stored and submitted before the worker runs.
RunRows(id) == {NoRow} \cup {InsertData(f, id, 1) : f \in WorkerFields}

RunQueue(st) ==
  UNION {scheduleJob({}, st[i], 1) : i \in {j \in Ids : st[j] # NoRow}}

\* A store that holds pending jobs, each with its entry on the queue; Redis
\* is empty.
InitRun ==
  /\ store \in [Ids -> UNION {RunRows(i) : i \in Ids}]
  /\ \A i \in Ids : store[i] \in RunRows(i)
  /\ nextId = MaxId + 1
  /\ cache = [k \in {} |-> NoRow]
  /\ queue = RunQueue(store)
  /\ now = 1
  /\ pc = [p \in Slots |-> "idle"]
  /\ op = [p \in Slots |-> NoOp]
  /\ loc = [p \in Slots |-> NoLoc]
  /\ result = [p \in Slots |-> NoResult]
  /\ requests = 0
  /\ admitted = [f \in AllFields |-> 0]
  /\ hist = NoHist
  /\ boot = Listening
  /\ worker = NoWorker
  /\ calc = NoCalc
  /\ hashes = NoHashes

\* The steps of processJob and onJobFailed once an entry is dispatched; the
\* store answers every query, the queue may reject a call.
WorkerSteps ==
  \/ HandleGet("w")
  \/ WorkerCheck
  \/ HandleUpdate("w")
  \/ UpdQueueFail("w")
  \/ WorkerExecute
  \/ WorkerComplete
  \/ WorkerReturn
  \/ WorkerFailed
  \/ WorkerFailedReturn

NextRun ==
  \/ WorkerDispatch
  \/ WorkerSteps
  \/ Tick

SpecRun == InitRun /\ [][NextRun]_vars

\* The worker's event loop runs a continuation that is ready.
SpecRunLive == SpecRun /\ WF_vars(WorkerSteps)

\* The data documents of the fingerprint runs: the same content with its
\* keys in either order, with and without surrounding whitespace, with null
\* and with undefined, flat, nested in an object and nested in an array, and
\* documents with other content.
HashData ==
  {EmptyData,
   Obj(<< <<"a", Str("x")>>, <<"b", JsNull>> >>),
   Obj(<< <<"b", JsNull>>, <<"a", Str(" x")>> >>),
   Obj(<< <<"b", JsUndefined>>, <<"a", Str("x ")>> >>),
   Obj(<< <<"a", Str("y")>>, <<"b", JsNull>> >>),
   Obj(<< <<"a", Str("x")>> >>),
   Obj(<< <<"a", Obj(<< <<"a", Str("x")>>, <<"b", Str("y")>> >>)>> >>),
   Obj(<< <<"a", Obj(<< <<"b", Str("y ")>>, <<"a", Str(" x")>> >>)>> >>),
   Obj(<< <<"a", Arr(<<Str("x"), JsNull>>)>> >>),
   Obj(<< <<"a", Arr(<<Str(" x"), JsUndefined>>)>> >>),
   Obj(<< <<"a", Arr(<<JsNull, Str("x")>>)>> >>)}

HashFields ==
  {[name |-> "a", frequency |-> fc[1], cronExpression |-> fc[2], data |-> d] :
     fc \in {<<"ONCE", NULL>>, <<"CUSTOM", "c1">>}, d \in HashData}

\* Two field sets are given.
InitHash ==
  /\ hashes \in [F1 : HashFields, F2 : HashFields, h1 : {<<>>}, h2 : {<<>>}]
  /\ store = [i \in Ids |-> NoRow]
  /\ nextId = 1
  /\ cache = [k \in {} |-> NoRow]
  /\ queue = {}
  /\ now = 1
  /\ pc = [p \in Slots |-> "idle"]
  /\ op = [p \in Slots |-> NoOp]
  /\ loc = [p \in Slots |-> NoLoc]
  /\ result = [p \in Slots |-> NoResult]
  /\ requests = 0
  /\ admitted = [f \in AllFields |-> 0]
  /\ hist = NoHist
  /\ boot = Listening
  /\ worker = NoWorker
  /\ calc = NoCalc

\* generateJobHash is applied to both.
Fingerprint ==
  /\ hashes.h1 = <<>>
  /\ hashes' = [hashes EXCEPT !.h1 = generateJobHash(hashes.F1),
                              !.h2 = generateJobHash(hashes.F2)]
  /\ UNCHANGED <<store, nextId, cache, queue, now, pc, op, loc, result, requests,
                 admitted, hist, boot, worker, calc>>

NextHash == Fingerprint

SpecHash == InitHash /\ [][NextHash]_vars

\* Data documents that differ after normalisation: in a value, in the type
\* of a value, in their keys, in the order of an array, and two whose keys
\* and strings hold quotes, colons and commas.
SensitiveData ==
  {EmptyData,
   Obj(<< <<"a", Str("x")>>, <<"b", Str("y")>> >>),
   Obj(<< <<"a\":\"x\",\"b", Str("y")>> >>),
   Obj(<< <<"a", Str("x\",\"b\":\"y")>> >>),
   Obj(<< <<"a", Str("x")>> >>),
   Obj(<< <<"b", Str("x")>> >>),
   Obj(<< <<"a", JsNull>> >>),
   Obj(<< <<"a", Str("null")>> >>),
   Obj(<< <<"a", Arr(<<Str("x"), Str("y")>>)>> >>),
   Obj(<< <<"a", Arr(<<Str("y"), Str("x")>>)>> >>)}

SensitiveFields ==
  {[name |-> "a", frequency |-> fc[1], cronExpression |-> fc[2], data |-> d] :
     fc \in {<<"ONCE", NULL>>, <<"CUSTOM", "c1">>}, d \in SensitiveData}
  \cup {[name |-> "b", frequency |-> "ONCE", cronExpression |-> NULL,
          data |-> EmptyData]}

\* Two field sets are given.
InitSensitive ==
  /\ hashes \in [F1 : SensitiveFields, F2 : SensitiveFields, h1 : {<<>>}, h2 : {<<>>}]
  /\ store = [i \in Ids |-> NoRow]
  /\ nextId = 1
  /\ cache = [k \in {} |-> NoRow]
  /\ queue = {}
  /\ now = 1
  /\ pc = [p \in Slots |-> "idle"]
  /\ op = [p \in Slots |-> NoOp]
  /\ loc = [p \in Slots |-> NoLoc]
  /\ result = [p \in Slots |-> NoResult]
  /\ requests = 0
  /\ admitted = [f \in AllFields |-> 0]
  /\ hist = NoHist
  /\ boot = Listening
  /\ worker = NoWorker
  /\ calc = NoCalc

\* Both are normalised and serialised; the texts are what the digest is
\* taken of.
Serialize ==
  /\ hashes.h1 = <<>>
  /\ hashes' = [hashes EXCEPT !.h1 = Text(generateJobHash(hashes.F1)),
                              !.h2 = Text(generateJobHash(hashes.F2))]
  /\ UNCHANGED <<store, nextId, cache, queue, now, pc, op, loc, result, requests,
                 admitted, hist, boot, worker, calc>>

NextSensitive == Serialize

SpecSensitive == InitSensitive /\ [][NextSensitive]_vars

\* The steps of incrementRetryCount after its getJobById.
HandleRetry(p) ==
  \/ IncDb(p) \/ IncInvalidate(p)

\* The job the retry counts are kept for.
RetryFields == {Fields("a", "DAILY", NULL, TRUE, 1)}

RetryRows(id) == {NoRow} \cup {InsertData(f, id, 1) : f \in RetryFields}

\* A store that holds jobs that have not been retried yet; Redis is empty.
InitRetry ==
  /\ store \in [Ids -> UNION {RetryRows(i) : i \in Ids}]
  /\ \A i \in Ids : store[i] \in RetryRows(i)
  /\ nextId = MaxId + 1
  /\ cache = [k \in {} |-> NoRow]
  /\ queue = {}
  /\ now = 1
  /\ pc = [p \in Slots |-> "idle"]
  /\ op = [p \in Slots |-> NoOp]
  /\ loc = [p \in Slots |-> NoLoc]
  /\ result = [p \in Slots |-> NoResult]
  /\ requests = 0
  /\ admitted = [f \in AllFields |-> 0]
  /\ hist = NoHist
  /\ boot = Listening
  /\ worker = NoWorker
  /\ hashes = NoHashes
  /\ calc = NoCalc

\* Two callers, each of which makes one call of incrementRetryCount or of
\* getJobById; the calls interleave at every await.
NextRetry ==
  \E p \in Procs :
    \/ \E id \in Ids : IncrementRetryCount(p, id)
    \/ \E id \in Ids : GetJobById(p, id)
    \/ HandleGet(p)
    \/ HandleRetry(p)

SpecRetry == InitRetry /\ [][NextRetry]_vars

\* The steps of enableJob and of deleteJob.
HandleEnable(p) ==
  \/ EnDb(p) \/ EnInvalidate(p) \/ EnSchedule(p)

HandleDelete(p) ==
  \/ DelDb(p) \/ DelRemove(p) \/ DelInvalidate(p)

\* Two callers that read and write the stored jobs; the calls interleave at
\* every await.
NextCoherent ==
  \E p \in Procs :
    \/ \E id \in Ids : GetJobById(p, id)
    \/ \E id \in Ids, partial \in {[name |-> "b"]} : UpdateJob(p, id, partial)
    \/ \E id \in Ids : EnableJob(p, id)
    \/ \E id \in Ids : DisableJob(p, id)
    \/ \E id \in Ids : DeleteJob(p, id)
    \/ HandleGet(p)
    \/ UpdDb(p) \/ UpdRemove(p) \/ UpdInvalidate(p) \/ UpdSchedule(p)
    \/ HandleEnable(p)
    \/ DisDb(p) \/ DisRemove(p) \/ DisInvalidate(p)
    \/ HandleDelete(p)

SpecCoherent == InitRetry /\ [][NextCoherent]_vars

(***************************************************************************)
(* calculateNextRun on its own: a job and an instant are drawn, and the    *)
(* function is applied.                                                    *)
(***************************************************************************)
\* 1, 5, 29, 30 and 31 January, 29 February, 31 March and 31 December of
\* EpochYear, and 31 January of the year after.
CalcDates == {1, 5, 29, 30, 31, 60, 91, 366, 397}
\* The instants the function is called at: 31 January, 9 April, and
\* 3 February of the year after.
CalcNow == {31, 100, 400}
\* The frequencies of the enum, a lower-case one as older rows hold them,
\* and one the enum does not know.
CalcFrequency == JobFrequency \cup {"daily", "hourly"}

\* An end date lies after the start date; a last run lies between the start
\* date and the instant of the call.
CalcJobs(t) ==
  {j \in [frequency : CalcFrequency, cronExpression : {NULL, "c1"},
          startDate : CalcDates, endDate : {0} \cup CalcDates,
          lastRunAt : {0} \cup CalcDates] :
     /\ j.endDate # 0 => j.endDate > j.startDate
     /\ j.lastRunAt # 0 => (j.startDate <= j.lastRunAt /\ j.lastRunAt <= t)}

InitNextRun ==
  /\ \E t \in CalcNow : \E j \in CalcJobs(t) :
       calc = [job |-> j, now |-> t, nextRun |-> 0]
  /\ store = [i \in Ids |-> NoRow]
  /\ nextId = 1
  /\ cache = [k \in {} |-> NoRow]
  /\ queue = {}
  /\ now = 1
  /\ pc = [p \in Slots |-> "idle"]
  /\ op = [p \in Slots |-> NoOp]
  /\ loc = [p \in Slots |-> NoLoc]
  /\ result = [p \in Slots |-> NoResult]
  /\ requests = 0
  /\ admitted = [f \in AllFields |-> 0]
  /\ hist = NoHist
  /\ boot = Listening
  /\ worker = NoWorker
  /\ hashes = NoHashes

\* calculateNextRun is applied to the job.
CalculateNextRun ==
  /\ calc.nextRun = 0
  /\ calc' = [calc EXCEPT !.nextRun = calculateNextRun(calc.job, calc.now)]
  /\ UNCHANGED <<store, nextId, cache, queue, now, pc, op, loc, result, requests,
                 admitted, hist, boot, worker, hashes>>

NextNextRun == CalculateNextRun

SpecNextRun == InitNextRun /\ [][NextNextRun]_vars

\* The steps of a createJob that is not forced.
HandleCreate(p) ==
  \/ DupCacheGet(p) \/ DupLookup(p) \/ DupCacheSet(p) \/ HandleInsert(p)

\* Two request bodies whose names differ by a trailing blank only.
TrimFields ==
  {Fields("a", "ONCE", NULL, TRUE, 2), Fields("a ", "ONCE", NULL, TRUE, 2)}

\* One client creating jobs, one request at a time, while cache entries
\* expire.
NextAdvisory ==
  \/ \E f \in TrimFields : CreateJob("p1", f, FALSE)
  \/ HandleCreate("p1")
  \/ Respond("p1")
  \/ CacheExpire

SpecAdvisory == Init /\ [][NextAdvisory]_vars

\* Request bodies of PUT /jobs/:id that change a field the fingerprint is
\* derived from, and one that does not.
FieldPartials == {[name |-> "b"], [enabled |-> FALSE]}

\* One client that creates jobs and changes their fields, one request at a
\* time.
NextRename ==
  \/ \E f \in SeqFields, force \in BOOLEAN : CreateJob("p1", f, force)
  \/ \E id \in Ids, partial \in FieldPartials : UpdateJob("p1", id, partial)
  \/ HandleCreate("p1")
  \/ HandleUpdate("p1")
  \/ Respond("p1")

SpecRename == Init /\ [][NextRename]_vars

\* The steps of createJob, updateJob, deleteJob, enableJob and disableJob
\* when Redis cannot be reached.
HandleDown(p) ==
  \/ DownDupCacheGet(p) \/ DupLookup(p) \/ DownDupCacheSet(p)
  \/ Insert(p) \/ DownSeed(p) \/ CreateSchedule(p) \/ DownCreateReturn(p)
  \/ UpdDb(p) \/ UpdRemove(p) \/ DownUpdInvalidate(p) \/ UpdSchedule(p)
  \/ DelDb(p) \/ DelRemove(p) \/ DownDelInvalidate(p)
  \/ EnDb(p) \/ DownEnInvalidate(p) \/ EnSchedule(p)
  \/ DisDb(p) \/ DisRemove(p) \/ DownDisInvalidate(p)
  \/ Respond(p)

\* One client, one request at a time, and no cache call that succeeds.
NextDown ==
  \/ \E f \in TrimFields, force \in BOOLEAN : CreateJob("p1", f, force)
  \/ \E id \in Ids, partial \in Partials(now) : UpdateJob("p1", id, partial)
  \/ \E id \in Ids : DeleteJob("p1", id)
  \/ \E id \in Ids : EnableJob("p1", id)
  \/ \E id \in Ids : DisableJob("p1", id)
  \/ HandleDown("p1")

SpecDown == Init /\ [][NextDown]_vars

\* Request bodies for the same daily job with cronExpression left out and
\* with cronExpression null, and a cron job.
AbsentFields ==
  {Fields("a", "DAILY", UNDEFINED, TRUE, 1), Fields("a", "DAILY", NULL, TRUE, 1),
   Fields("a", "CUSTOM", "c1", TRUE, 1)}

\* One client that creates and enables jobs, one request at a time; cache
\* entries expire.
NextAbsent ==
  \/ \E f \in AbsentFields : CreateJob("p1", f, FALSE)
  \/ \E id \in Ids : EnableJob("p1", id)
  \/ HandleCreate("p1")
  \/ DupLookupUndefined("p1")
  \/ DupBackoff("p1")
  \/ EnDb("p1") \/ EnInvalidate("p1") \/ EnSchedule("p1")
  \/ Respond("p1")
  \/ CacheExpire

SpecAbsent == Init /\ [][NextAbsent]_vars

\* One client that creates jobs, one request at a time; the queue may reject
\* a submission, and cache entries expire.
NextQueueFault ==
  \/ \E f \in RaceFields : CreateJob("p1", f, FALSE)
  \/ HandleCreate("p1")
  \/ CreateScheduleFail("p1")
  \/ Respond("p1")
  \/ CacheExpire

SpecQueueFault == Init /\ [][NextQueueFault]_vars

\* A job of every frequency, and a partial for every status.
EnumFields ==
  {Fields("a", f, NULL, TRUE, 1) : f \in JobFrequency \ {"CUSTOM"}}
  \cup {Fields("a", "CUSTOM", "c1", TRUE, 1)}

StatusPartials == {[status |-> s] : s \in JobStatus}

\* One caller that creates jobs and sets their status, one call at a time.
NextEnum ==
  \/ \E f \in EnumFields : CreateJob("p1", f, TRUE)
  \/ \E id \in Ids, partial \in StatusPartials : UpdateJob("p1", id, partial)
  \/ HandleInsert("p1")
  \/ HandleUpdate("p1")
  \/ Respond("p1")

SpecEnum == Init /\ [][NextEnum]_vars

\* The jobs a restarted process may find in its store: jobs admitted by
\* createJob before the restart, in any status the worker leaves them in.
StartupFields ==
  {Fields("a", "ONCE", NULL, TRUE, 2), Fields("a", "ONCE", NULL, TRUE, 1),
   Fields("a", "ONCE", NULL, FALSE, 2), Fields("a", "DAILY", NULL, TRUE, 1)}

StartupRows(id) ==
  {NoRow} \cup
  {[InsertData(f, id, 1) EXCEPT !.status = st] :
     f \in StartupFields, st \in {"pending", "running", "completed"}}

\* A process starts on a store that holds jobs; Redis is empty.
InitStartup ==
  /\ store \in [Ids -> UNION {StartupRows(i) : i \in Ids}]
  /\ \A i \in Ids : store[i] \in StartupRows(i)
  /\ nextId = MaxId + 1
  /\ cache = [k \in {} |-> NoRow]
  /\ queue = {}
  /\ now = 1
  /\ pc = [p \in Slots |-> "idle"]
  /\ op = [p \in Slots |-> NoOp]
  /\ loc = [p \in Slots |-> NoLoc]
  /\ result = [p \in Slots |-> NoResult]
  /\ requests = 0
  /\ admitted = [f \in AllFields |-> 0]
  /\ hist = NoHist
  /\ boot = [Listening EXCEPT !.phase = "initializing"]
  /\ worker = NoWorker
  /\ calc = NoCalc
  /\ hashes = NoHashes

\* Startup, then one client reading jobs.
NextStartup ==
  \/ InitLoad
  \/ InitSchedule
  \/ InitFail
  \/ Listen
  \/ \E id \in Ids : GetJobById("p1", id)
  \/ HandleGet("p1")
  \/ Respond("p1")
  \/ Tick

SpecStartup == InitStartup /\ [][NextStartup]_vars

\* Jobs of every frequency: one-shot jobs that are still to start, that have
\* started and that are disabled, recurring jobs and a cron job.
SubmitFields ==
  {Fields("a", "ONCE", NULL, TRUE, 2), Fields("a", "ONCE", NULL, TRUE, 1),
   Fields("a", "ONCE", NULL, FALSE, 2), Fields("a", "DAILY", NULL, TRUE, 1),
   Fields("a", "WEEKLY", NULL, TRUE, 1), Fields("a", "MONTHLY", NULL, TRUE, 1),
   Fields("a", "CUSTOM", "c1", TRUE, 1)}

SubmitRows(id) == {NoRow} \cup {InsertData(f, id, 1) : f \in SubmitFields}

\* Request bodies of PUT /jobs/:id that give the job a cron expression and
\* that move its start.
SubmitPartials == {[cronExpression |-> "c2"], [startDate |-> 2]}

\* A process starts on a store that holds at most one job, which is pending;
\* Redis is empty.
InitSubmit ==
  /\ store \in [Ids -> UNION {SubmitRows(i) : i \in Ids}]
  /\ \A i \in Ids : store[i] \in (IF i = 1 THEN SubmitRows(i) ELSE {NoRow})
  /\ nextId = 2
  /\ cache = [k \in {} |-> NoRow]
  /\ queue = {}
  /\ now = 1
  /\ pc = [p \in Slots |-> "idle"]
  /\ op = [p \in Slots |-> NoOp]
  /\ loc = [p \in Slots |-> NoLoc]
  /\ result = [p \in Slots |-> NoResult]
  /\ requests = 0
  /\ admitted = [f \in AllFields |-> 0]
  /\ hist = NoHist
  /\ boot = [Listening EXCEPT !.phase = "initializing"]
  /\ worker = NoWorker
  /\ calc = NoCalc
  /\ hashes = NoHashes

\* Startup, then one client that creates, updates and enables jobs, one
\* request at a time.
NextSubmit ==
  \/ InitLoad
  \/ InitSchedule
  \/ Listen
  \/ \E f \in RaceFields : CreateJob("p1", f, TRUE)
  \/ \E id \in Ids, partial \in SubmitPartials : UpdateJob("p1", id, partial)
  \/ \E id \in Ids : EnableJob("p1", id)
  \/ HandleInsert("p1")
  \/ HandleUpdate("p1")
  \/ HandleEnable("p1")
  \/ Respond("p1")
  \/ Tick

SpecSubmit == InitSubmit /\ [][NextSubmit]_vars

(***************************************************************************)
(* Properties.                                                             *)
(***************************************************************************)
Done(p, kind) == pc[p] = "done" /\ op[p].kind = kind

\* The stored jobs with the (name, frequency, cronExpression, fingerprint)
\* of a field set.
JobsWithTuple(f) ==
  {r \in Rows :
     /\ r.name = f.name
     /\ r.frequency = frequencyToDbString(f.frequency)
     /\ r.cronExpression = (IF f.cronExpression = UNDEFINED THEN NULL
                             ELSE f.cronExpression)
     /\ r.dataHash = generateJobHash(f)}

\* C1: a create(F, forceCreate=false) that follows a successful
\* create(F, forceCreate=false), with no update, delete or other admission of
\* the same job in between, fails with DUPLICATE_JOB carrying the id of the
\* first job, and exactly one job with F's tuple is stored.
IdempotentAdmission ==
  \A p \in Procs :
    (Done(p, "create") /\ ~op[p].force /\ loc[p].admittedAtCall # 0) =>
      /\ result[p].kind = "DUPLICATE_JOB"
      /\ result[p].job.id = loc[p].admittedAtCall
      /\ Cardinality(JobsWithTuple(op[p].fields)) = 1

\* The second of two equal non-forced creates has been rejected.
IdempotentAdmissionWitness ==
  \E p \in Procs :
    /\ Done(p, "create") /\ ~op[p].force /\ loc[p].admittedAtCall # 0
    /\ result[p].kind = "DUPLICATE_JOB"

UniqueTuple ==
  \A r \in Rows : \A q \in Rows : SameTuple(r, q) => r.id = q.id

\* C3: a non-forced create that does not return a job fails with
\* DUPLICATE_JOB carrying a stored job with the requested tuple, also when
\* it is the store's unique index that rejects the insert.
LateDuplicateIsDuplicateJob ==
  \A p \in Procs :
    (Done(p, "create") /\ result[p].kind # "ok") =>
      /\ result[p].kind = "DUPLICATE_JOB"
      /\ result[p].job.dataHash = generateJobHash(op[p].fields)

FailClosedOnWrite ==
  \A p \in Procs :
    loc[p].writeFailed =>
      /\ pc[p] = "done"
      /\ result[p].kind = "STORE_ERROR"
      /\ loc[p].queueCalls = 0

\* The store has failed the write of an update, enable, disable or delete of
\* a job that is on the queue.
FailClosedOnWriteWitness ==
  \E p \in Procs :
    /\ loc[p].writeFailed
    /\ op[p].kind \in {"update", "enable", "disable", "delete"}
    /\ OnQueue(op[p].id)

\* The requests in flight that work on job id.
InFlight(id) ==
  {p \in Procs : pc[p] \notin {"idle", "done"}
                 /\ (op[p].id = id \/ loc[p].job.id = id)}

\* C7: when no request on a job is in flight and the job's stored enabled
\* flag is false, the queue holds no entry for the job.
DisabledNotQueued ==
  \A id \in Ids :
    (InFlight(id) = {} /\ store[id] # NoRow /\ ~store[id].enabled) => ~OnQueue(id)

\* C8: a disable leaves the job's status as it was and, when it returns, no
\* queue entry for the job.
DisableClearsQueue ==
  [][\A p \in Procs :
       /\ (pc[p] = "disDb" /\ pc'[p] = "disRemove") =>
             store'[op[p].id].status = store[op[p].id].status
       /\ (pc[p] = "disInvalidate" /\ pc'[p] = "done") =>
             ~OnQueueIn(queue', op[p].id)]_vars

DeleteCascades ==
  \A p \in Procs :
    (Done(p, "delete") /\ result[p].kind = "true") =>
      /\ store[op[p].id] = NoRow
      /\ ~OnQueue(op[p].id)
      /\ JobKey(op[p].id) \notin DOMAIN cache

\* C11: when delete returns true no job:duplicate entry is left under the
\* deleted job's fingerprint, and a create(F, forceCreate=false) called when
\* a job with F's fingerprint has been deleted and no stored job matches F
\* returns a newly stored job instead of failing with DUPLICATE_JOB.
ReadmissionAfterDelete ==
  \A p \in Procs :
    /\ (Done(p, "delete") /\ result[p].kind = "true") =>
         DupKey(loc[p].job.dataHash) \notin DOMAIN cache
    /\ (Done(p, "create") /\ ~op[p].force /\ loc[p].readmission) =>
         /\ result[p].kind = "ok"
         /\ store[result[p].job.id] # NoRow
         /\ store[result[p].job.id].dataHash = generateJobHash(op[p].fields)

\* A job has been admitted again after the delete of its predecessor.
ReadmissionAfterDeleteWitness ==
  \E p \in Procs :
    /\ Done(p, "create") /\ ~op[p].force /\ loc[p].readmission
    /\ result[p].kind = "ok"

UpdateResubmitsOnlyPending ==
  \A p \in Procs :
    (Done(p, "update") /\ result[p].kind = "ok") =>
      LET job == result[p].job
      IN /\ loc[p].queueCalls = 2 => (job.enabled /\ job.status = "PENDING")
         /\ ~(job.enabled /\ job.status = "PENDING") => ~OnQueue(op[p].id)

\* The scheduling fields of a job.
SchedulingFields == {"frequency", "cronExpression", "startDate", "endDate", "lastRunAt"}

\* C14: an update whose partial carries a scheduling field stores the
\* nextRunAt that calculateNextRun yields for the merged job.
NextRunAtRecomputed ==
  [][\A p \in Slots :
       (pc[p] = "updDb" /\ pc'[p] = "updRemove"
        /\ DOMAIN op[p].partial \cap SchedulingFields # {}) =>
         store'[op[p].id].nextRunAt =
           calculateNextRun(mapDbRowToJob(store'[op[p].id]), now)]_vars

\* The stored jobs that are PENDING and enabled.
PendingEnabled == {r \in Rows : r.status = "pending" /\ r.enabled}

WorkerFollowsLifecycle ==
  [][\A id \in Ids :
       (pc["w"] = "updDb" /\ op["w"].id = id /\ store[id] # NoRow
        /\ store'[id].status # store[id].status) =>
         <<store[id].status, store'[id].status>> \in
           {<<"pending", "running">>, <<"running", "completed">>,
            <<"running", "failed">>}]_vars

\* C17: the worker goes on to the run-start update only if the store did
\* not have the job disabled when the pre-execution check began.
WorkerCheckReflectsStore ==
  worker.stage \in {"running", "executing", "completing"} => ~worker.disabledAtCheck

\* The value an object holds under a key.
ValueAt(pairs, key) ==
  pairs[CHOOSE i \in 1..Len(pairs) : pairs[i][1] = key][2]

\* Deep equality of two values after trimming every string, with null and
\* undefined taken as the same value and the keys of an object in any order.
RECURSIVE DeepEqualTrimmed(_, _)
DeepEqualTrimmed(x, y) ==
  CASE x[1] \in {"null", "undefined"} -> y[1] \in {"null", "undefined"}
    [] x[1] = "str" -> y[1] = "str" /\ Trim(x[2]) = Trim(y[2])
    [] x[1] = "arr" ->
         /\ y[1] = "arr"
         /\ Len(x[2]) = Len(y[2])
         /\ \A i \in 1..Len(x[2]) : DeepEqualTrimmed(x[2][i], y[2][i])
    [] OTHER ->
         /\ y[1] = "obj"
         /\ {x[2][i][1] : i \in 1..Len(x[2])} = {y[2][i][1] : i \in 1..Len(y[2])}
         /\ \A i \in 1..Len(x[2]) :
              DeepEqualTrimmed(x[2][i][2], ValueAt(y[2], x[2][i][1]))

\* C18: two field sets with the same name, frequency and cronExpression
\* whose data are deep-equal after trimming have the same fingerprint,
\* whatever the order of the keys.
FingerprintDeterminism ==
  (/\ hashes.h1 # <<>>
   /\ hashes.F1.name = hashes.F2.name
   /\ hashes.F1.frequency = hashes.F2.frequency
   /\ hashes.F1.cronExpression = hashes.F2.cronExpression
   /\ DeepEqualTrimmed(hashes.F1.data, hashes.F2.data)) =>
     hashes.h1 = hashes.h2

\* Two documents that differ in key order, whitespace and null against
\* undefined at a nested level have been given the same fingerprint.
FingerprintDeterminismWitness ==
  /\ hashes.h1 # <<>>
  /\ hashes.F1.data = Obj(<< <<"a", Obj(<< <<"a", Str("x")>>, <<"b", Str("y")>> >>)>> >>)
  /\ hashes.F2.data = Obj(<< <<"a", Obj(<< <<"b", Str("y ")>>, <<"a", Str(" x")>> >>)>> >>)
  /\ hashes.F1.frequency = hashes.F2.frequency
  /\ hashes.h1 = hashes.h2

\* C19: a create(F, forceCreate=false) fails with DUPLICATE_JOB only if the
\* store lookup for F, which is all an empty duplicate cache leaves, finds a
\* job, and the job it carries is one the lookup finds.
CacheIsAdvisory ==
  \A p \in Procs :
    (Done(p, "create") /\ ~op[p].force /\ result[p].kind = "DUPLICATE_JOB") =>
      \E r \in DuplicateMatches(op[p].fields) : r.id = result[p].job.id

\* The positions of a createJob inside checkForDuplicate.
InCheck == {"dupCacheGet", "dupLookup", "dupCacheSet", "dupBackoff"}

\* C20 (safety): whatever fails in the cache or in the store lookup, the
\* duplicate check makes at most three attempts and its caller ends with the
\* created job, with DUPLICATE_JOB carrying a job, or with the error of its
\* own insert, never with an error of the check.
CheckRaisesNothing ==
  \A p \in Procs :
    (op[p].kind = "create" /\ ~op[p].force) =>
      /\ loc[p].attempt \in 0..3
      /\ loc[p].lookupsFailed <= loc[p].attempt
      /\ pc[p] = "done" =>
           /\ result[p].kind \in {"ok", "DUPLICATE_JOB", "UNIQUE_VIOLATION", "STORE_ERROR"}
           /\ result[p].kind = "STORE_ERROR" <=> loc[p].writeFailed
           /\ result[p].kind = "DUPLICATE_JOB" => result[p].job.id \in Ids

\* How far a call has got in checkForDuplicate: the cache get, then for
\* each attempt the store query and the backoff, then the cache set, then
\* the return.
CheckRank(position, attempt) ==
  CASE position = "dupCacheGet" -> 0
    [] position = "dupLookup" -> 2 * attempt - 1
    [] position = "dupBackoff" -> 2 * attempt
    [] position = "dupCacheSet" -> 7
    [] OTHER -> 8

\* Every step of a call inside checkForDuplicate takes it further, so that
\* after at most eight steps the check has returned.
CheckAdvances ==
  \A p \in Procs :
    (pc[p] \in InCheck /\ <<pc'[p], loc'[p]>> # <<pc[p], loc[p]>>) =>
      CheckRank(pc'[p], loc'[p].attempt) > CheckRank(pc[p], loc[p].attempt)

\* C20: checkForDuplicate never raises and terminates: CheckRaisesNothing
\* always holds, and every step of the check takes it nearer to its return.
CheckNeverRaises ==
  /\ []CheckRaisesNothing
  /\ [][CheckAdvances]_vars

\* A create has got through the check although the cache get and every
\* attempt of the store lookup failed.
CheckNeverRaisesWitness ==
  \E p \in Procs :
    /\ op[p].kind = "create" /\ ~op[p].force
    /\ pc[p] \notin InCheck
    /\ "get" \in loc[p].checkFaults
    /\ loc[p].lookupsFailed = 3

\* The job of the call has passed its end date.
CalcEndPassed == calc.job.endDate # 0 /\ calc.job.endDate < calc.now

\* C21: calculateNextRun yields startDate, and neither null nor an error,
\* for a job whose end date has passed; otherwise for a job whose start
\* date lies ahead; otherwise for a ONCE job; and for a CUSTOM job with a
\* cron expression.
NextRunRulesInOrder ==
  calc.nextRun # 0 =>
    /\ CalcEndPassed => calc.nextRun = calc.job.startDate
    /\ (~CalcEndPassed /\ calc.job.startDate > calc.now) =>
         calc.nextRun = calc.job.startDate
    /\ (~CalcEndPassed /\ calc.job.startDate <= calc.now
          /\ calc.job.frequency = "ONCE") => calc.nextRun = calc.job.startDate
    /\ (calc.job.frequency = "CUSTOM" /\ calc.job.cronExpression # NULL) =>
         calc.nextRun = calc.job.startDate

\* A DAILY job that has started and run, and whose end date has passed, has
\* been given its start date.
NextRunRulesInOrderWitness ==
  /\ calc.nextRun = calc.job.startDate
  /\ CalcEndPassed
  /\ calc.job.frequency = "DAILY"
  /\ calc.job.lastRunAt > calc.job.startDate

\* The last run of the job of the call, or its start date.
CalcBase ==
  IF calc.job.lastRunAt # 0 THEN calc.job.lastRunAt ELSE calc.job.startDate

\* C22: for a job that has started and whose end date has not passed, the
\* next run of a DAILY job is one day, and of a WEEKLY job seven days,
\* after its last run, or after its start date when it has never run.
NextRunDailyWeekly ==
  (/\ calc.nextRun # 0
   /\ calc.job.startDate <= calc.now
   /\ ~CalcEndPassed) =>
     /\ calc.job.frequency = "DAILY" => calc.nextRun = CalcBase + 1
     /\ calc.job.frequency = "WEEKLY" => calc.nextRun = CalcBase + 7

\* DAILY, startDate 2024-01-01, lastRunAt 2024-01-05 has given 2024-01-06.
NextRunDailyWeeklyWitness ==
  /\ calc.job.frequency = "DAILY"
  /\ calc.job.startDate = 1
  /\ calc.job.lastRunAt = 5
  /\ calc.job.endDate = 0
  /\ calc.nextRun = 6

\* The smaller of two numbers.
Min(a, b) == IF a < b THEN a ELSE b

\* C23: for a MONTHLY job that has started and whose end date has not
\* passed, the next run is in the month after the base, on the day of the
\* month of the base or on the last day of that month when it is shorter.
NextRunMonthlyClamps ==
  (/\ calc.nextRun # 0
   /\ calc.job.startDate <= calc.now
   /\ ~CalcEndPassed
   /\ calc.job.frequency = "MONTHLY") =>
     LET y == YearFromTime(CalcBase)
         m == MonthFromTime(CalcBase)
         d == DateFromTime(CalcBase)
         targetYear == IF m = 12 THEN y + 1 ELSE y
         targetMonth == IF m = 12 THEN 1 ELSE m + 1
     IN calc.nextRun =
          MakeDay(targetYear, targetMonth,
                  Min(d, DaysInMonth(targetYear, targetMonth)))

\* C24: for a frequency that is none of ONCE, DAILY, WEEKLY, MONTHLY and
\* CUSTOM after upper-casing, calculateNextRun does not throw and yields
\* the start date.
UnknownFrequencyIsOnce ==
  (calc.nextRun # 0 /\ ToUpperCase(calc.job.frequency) \notin JobFrequency) =>
    calc.nextRun = calc.job.startDate

\* A job of unknown frequency that has started and run, and has no end
\* date, has been given its start date.
UnknownFrequencyIsOnceWitness ==
  /\ calc.job.frequency = "hourly"
  /\ calc.job.endDate = 0
  /\ calc.job.lastRunAt > calc.job.startDate
  /\ calc.nextRun = calc.job.startDate

\* C25: a step of enableJob or disableJob changes nothing in the store but
\* the enabled flag of the job it was called for.
EnableDisableFrame ==
  [][\A p \in Procs :
       (op[p].kind \in {"enable", "disable"} /\ pc'[p] # pc[p]) =>
         \A i \in Ids :
           /\ store'[i] = [store[i] EXCEPT !.enabled = store'[i].enabled]
           /\ i # op[p].id => store'[i] = store[i]]_vars

\* A job that has run to completion has been switched on again, beside
\* another stored job, and is still completed.
EnableDisableFrameWitness ==
  \E p \in Procs :
    /\ Done(p, "enable")
    /\ result[p].kind = "ok"
    /\ store[op[p].id].enabled
    /\ store[op[p].id].status = "completed"
    /\ \E i \in Ids : i # op[p].id /\ store[i] # NoRow

\* The calls of incrementRetryCount(id) that have returned the job.
Incremented(id) ==
  {p \in Procs : Done(p, "retry") /\ op[p].id = id /\ result[p].kind = "incremented"}

\* C26: once the calls of incrementRetryCount for a job have returned, the
\* stored retryCount, which was 0, is the number of calls that returned the
\* job, and the status is the one the job had.
RetryCountCounts ==
  \A id \in Ids :
    (/\ store[id] # NoRow
     /\ \A p \in Procs : (op[p].kind = "retry" /\ op[p].id = id) => pc[p] = "done"
     /\ \A p \in Procs : Done(p, "retry") => result[p].kind # "ok") =>
       /\ store[id].retryCount = Cardinality(Incremented(id))
       /\ store[id].status = "pending"

\* C27: the stored fingerprint of every job is the fingerprint of the name,
\* frequency, cronExpression and data the job is stored with.
FingerprintOfStoredFields ==
  \A r \in Rows : r.dataHash = generateJobHash(mapDbRowToJob(r))

\* C28: a create(F, forceCreate=false) fails with DUPLICATE_JOB only if the
\* store held a job with F's name, frequency, cronExpression and data at
\* some point between the arrival of the call and its return.
RejectionHasStoredMatch ==
  \A p \in Procs :
    (Done(p, "create") /\ ~op[p].force /\ result[p].kind = "DUPLICATE_JOB") =>
      loc[p].matchSeen

\* C29: a createJob that is not forced has issued no store query of the
\* duplicate check after a cache hit and at most three otherwise. While a
\* query is under way, and once one has returned, every earlier query has
\* failed and no later one is made; the waits so far are 100 ms after the
\* first failure and 200 ms after the second, and none after the third.
QueriesAndBackoff ==
  \A p \in Procs :
    (op[p].kind = "create" /\ ~op[p].force) =>
      /\ loc[p].attempt \in 0..3
      /\ pc[p] = "dupCacheGet" => loc[p].attempt = 0
      /\ pc[p] \in {"dupLookup", "dupCacheSet"} =>
           loc[p].attempt = loc[p].lookupsFailed + 1
      /\ pc[p] = "dupBackoff" =>
           loc[p].attempt = loc[p].lookupsFailed /\ loc[p].attempt < 3
      /\ pc[p] \notin InCheck =>
           \/ loc[p].attempt = 0 /\ loc[p].lookupsFailed = 0
           \/ loc[p].attempt = loc[p].lookupsFailed + 1
           \/ loc[p].attempt = 3 /\ loc[p].lookupsFailed = 3
      /\ loc[p].waits =
           SubSeq(<<100, 200>>, 1,
                  IF pc[p] = "dupBackoff" \/ loc[p].lookupsFailed = 3
                  THEN Min(loc[p].lookupsFailed, 2)
                  ELSE loc[p].attempt - 1)

\* The queries of the duplicate check and the steps from one to the next.
QueryOrder ==
  \A p \in Procs :
    (op[p].kind = "create" /\ pc[p] \in InCheck /\ pc'[p] # pc[p]) =>
      /\ (pc[p] = "dupCacheGet" /\ pc'[p] = "done") => loc'[p].attempt = 0
      /\ pc[p] = "dupLookup" =>
           \/ /\ loc'[p].lookupsFailed = loc[p].lookupsFailed
              /\ pc'[p] \in {"dupCacheSet", "insert"}
              /\ loc'[p].waits = loc[p].waits
           \/ /\ loc'[p].lookupsFailed = loc[p].lookupsFailed + 1
              /\ loc[p].attempt < 3
              /\ pc'[p] = "dupBackoff"
           \/ /\ loc'[p].lookupsFailed = 3
              /\ loc[p].attempt = 3
              /\ pc'[p] = "insert"
              /\ loc'[p].waits = loc[p].waits
      /\ pc[p] = "dupBackoff" =>
           pc'[p] = "dupLookup" /\ loc'[p].attempt = loc[p].attempt + 1
      /\ pc[p] = "dupCacheSet" =>
           pc'[p] = "done" /\ loc'[p].attempt = loc[p].attempt

CacheDownSameResult ==
  \A p \in Procs :
    (Done(p, "create") /\ ~op[p].force /\ loc[p].missedHit) =>
      result[p].kind = "DUPLICATE_JOB"

(***************************************************************************)
(* createJob: the job it returns and the order of its effects.             *)
(***************************************************************************)
\* The job a successful createJob returns is the stored row: PENDING, enabled
\* as requested, with the fingerprint of the request and the next run
\* computed from the request when the row was built.
CreatedJobAsRequested ==
  \A p \in Procs :
    (Done(p, "create") /\ result[p].kind = "ok") =>
      LET job == result[p].job
          fields == op[p].fields
      IN /\ job.id \in Ids
         /\ mapDbRowToJob(store[job.id]) = job
         /\ job.status = "PENDING"
         /\ job.enabled = fields.enabled
         /\ job.dataHash = generateJobHash(fields)
         /\ \E t \in 1..now : job.nextRunAt = calculateNextRun(fields, t)

\* The steps of a createJob past the duplicate check: the insert, then the
\* duplicate-cache entry under the job's fingerprint, then scheduleJob (which
\* adds to the queue only for an enabled job), then the list caches, then
\* the return; each step has its one effect and no other.
CreateEffectsInOrder ==
  \A p \in Procs :
    (op[p].kind = "create" /\ pc'[p] # pc[p]) =>
      LET job == loc[p].job
      IN /\ (pc[p] = "insert" /\ pc'[p] # "done") =>
              /\ pc'[p] = "seed"
              /\ store[loc'[p].job.id] = NoRow
              /\ mapDbRowToJob(store'[loc'[p].job.id]) = loc'[p].job
              /\ cache' = cache /\ queue' = queue
         /\ pc[p] = "seed" =>
              /\ pc'[p] = "schedule"
              /\ DupKey(generateJobHash(op[p].fields)) \in DOMAIN cache'
              /\ cache'[DupKey(generateJobHash(op[p].fields))] = job
              /\ store' = store /\ queue' = queue
         /\ pc[p] = "schedule" =>
              /\ pc'[p] = "invalidateLists"
              /\ queue' = scheduleJob(queue, job, now)
              /\ queue' # queue => op[p].fields.enabled
              /\ store' = store /\ cache' = cache
         /\ pc[p] = "invalidateLists" =>
              /\ pc'[p] = "done"
              /\ result'[p] = [kind |-> "ok", job |-> job]
              /\ cache' = invalidateJobListCaches(cache)
              /\ store' = store /\ queue' = queue
         /\ (pc'[p] = "done" /\ result'[p].kind = "ok") =>
              pc[p] = "invalidateLists"

\* C31: a successful create returns the persisted job with status PENDING,
\* enabled as supplied, the fingerprint of its fields and nextRunAt computed
\* from its fields, and its effects come in the order insert, duplicate-cache
\* seed, queue submission (only if enabled), list-cache invalidation.
CreateReturnsAndOrders == []CreatedJobAsRequested /\ [][CreateEffectsInOrder]_vars

\* A create of an enabled job has returned: its row is stored, its
\* fingerprint is in the duplicate cache and its entry is on the queue.
CreateReturnsAndOrdersWitness ==
  \E p \in Procs :
    /\ Done(p, "create") /\ result[p].kind = "ok"
    /\ result[p].job.enabled
    /\ DupKey(result[p].job.dataHash) \in DOMAIN cache
    /\ OnQueue(result[p].job.id)

(***************************************************************************)
(* The duplicate lookup and the cronExpression of the request.             *)
(***************************************************************************)
\* The stored jobs a null-aware lookup for fields matches: those with the
\* name, frequency and fingerprint of fields and with a NULL cron_expression
\* when fields has no cronExpression, with that cronExpression otherwise.
NullAwareMatches(fields) ==
  {r \in Rows :
     /\ r.name = fields.name
     /\ r.frequency = frequencyToDbString(fields.frequency)
     /\ r.dataHash = generateJobHash(fields)
     /\ IF fields.cronExpression \in {NULL, UNDEFINED}
        THEN r.cronExpression = NULL
        ELSE r.cronExpression = fields.cronExpression}

\* C32: the store lookup of the duplicate check raises no error and matches
\* exactly the jobs a null-aware comparison of cronExpression matches, for a
\* cronExpression that is null, left out, or set.
LookupNullAware ==
  \A p \in Procs :
    op[p].kind = "create" =>
      /\ loc[p].lookupsFailed = 0
      /\ pc[p] = "dupLookup" =>
           DuplicateMatches(op[p].fields) = NullAwareMatches(op[p].fields)

(***************************************************************************)
(* The job cache and the store.                                            *)
(***************************************************************************)
\* C33: when no call on job id is in flight, what getJobById(id) answers
\* from the cache is the stored row: a job:<id> entry, if there is one, holds
\* the current row of id, and there is none once the job is deleted.
JobCacheCoherent ==
  \A id \in Ids :
    (InFlight(id) = {} /\ JobKey(id) \in DOMAIN cache) =>
      /\ store[id] # NoRow
      /\ mapDbRowToJob(cache[JobKey(id)]) = mapDbRowToJob(store[id])

(***************************************************************************)
(* The queue entries of deleted jobs.                                      *)
(***************************************************************************)
\* The ids of the jobs that have been deleted.
Deleted == {id \in Ids : id < nextId /\ store[id] = NoRow}

\* C34: once a job is deleted and every call on it has finished, the queue
\* holds no entry for it, however the delete interleaved with enables,
\* updates and the create that was still submitting the job.
NoEntryOutlivesJob ==
  \A id \in Deleted : InFlight(id) = {} => ~OnQueue(id)

(***************************************************************************)
(* A createJob that throws.                                                *)
(***************************************************************************)
\* C35: a createJob that has thrown anything but DUPLICATE_JOB has left no
\* job of its own in the store and no duplicate-cache entry for it, and no
\* later createJob is rejected as a duplicate of such a job.
CreateAllOrNothing ==
  /\ \A id \in hist.raised :
       /\ store[id] = NoRow
       /\ \A key \in DOMAIN cache : cache[key].id # id
  /\ \A p \in Procs :
       (Done(p, "create") /\ result[p].kind = "DUPLICATE_JOB") =>
         result[p].job.id \notin hist.raised

(***************************************************************************)
(* The end of a run.                                                       *)
(***************************************************************************)
\* C36: a job the worker has moved to RUNNING is in the end moved to
\* COMPLETED or to FAILED, when the worker is scheduled fairly and the store
\* answers.
RunningEnds ==
  \A id \in Ids :
    (store[id].status = "running") ~> (store[id].status \in {"completed", "failed"})

\* A run has ended in FAILED after a queue call of its run-start update was
\* rejected, and another has ended in COMPLETED.
RunningEndsWitness ==
  /\ \E id \in Ids : store[id].status = "failed"
  /\ \E id \in Ids : store[id].status = "completed"

(***************************************************************************)
(* What is submitted to the queue.                                         *)
(***************************************************************************)
\* The queue after a scheduling step for the snapshot job at instant t has
\* made its submission: none for a disabled job; for ONCE a delayed entry
\* due after startDate - t, and none unless that delay is positive; for the
\* other frequencies a repeatable entry with the job's cronExpression, or
\* with the daily, weekly or monthly pattern when the job has none.
Submitted(job, q, t) ==
  LET delay == job.startDate - t
      pattern == IF job.cronExpression # NULL THEN job.cronExpression
                 ELSE CASE job.frequency = "DAILY" -> "0 0 * * *"
                        [] job.frequency = "WEEKLY" -> "0 0 * * 0"
                        [] job.frequency = "MONTHLY" -> "0 0 1 * *"
                        [] OTHER -> NULL
  IN IF ~job.enabled THEN q
     ELSE IF job.frequency = "ONCE"
          THEN IF delay > 0 THEN queueAddDelayed(q, job.id, t + delay) ELSE q
          ELSE IF pattern # NULL THEN queueAddRepeat(q, job.id, pattern) ELSE q

\* The request that takes its scheduling step.
Scheduling(p) ==
  /\ pc[p] \in {"schedule", "updSchedule", "enSchedule"}
  /\ pc'[p] # pc[p]

\* Every scheduling step of createJob, updateJob, enableJob and
\* initializeJobs leaves the queue as its submission makes it, and no other
\* step adds an entry.
SubmissionStep ==
  /\ \A p \in Procs : Scheduling(p) => queue' = Submitted(loc[p].job, queue, now)
  /\ (boot.phase = "scheduling" /\ boot'.activeJobs # boot.activeJobs) =>
       \E row \in boot.activeJobs \ boot'.activeJobs :
         queue' = Submitted(mapDbRowToJob(row), queue, now)
  /\ (queue' \ queue # {}) =>
       \/ \E p \in Procs : Scheduling(p)
       \/ boot.phase = "scheduling" /\ boot'.activeJobs # boot.activeJobs

\* Every entry on the queue is a delayed entry due at a later instant than
\* the one it was submitted at, or a repeatable entry with a pattern.
EntriesWellFormed ==
  \A e \in queue :
    \/ e.kind = "delayed" /\ e.pattern = NULL /\ e.at > 1
    \/ e.kind = "repeat" /\ e.pattern # NULL

EnumsSurviveStore ==
  \A p \in Procs :
    /\ (Done(p, "create") /\ result[p].kind = "ok") =>
         /\ result[p].job.frequency = op[p].fields.frequency
         /\ dbStringToFrequency(store[result[p].job.id].frequency)
              = op[p].fields.frequency
    /\ (Done(p, "update") /\ result[p].kind = "ok"
          /\ "status" \in DOMAIN op[p].partial) =>
         /\ result[p].job.status = op[p].partial.status
         /\ dbStringToStatus(store[op[p].id].status) = op[p].partial.status

\* The status read back after an update to status s: the store's job_status
\* enum has no value for CANCELLED, which is stored as failed.
ReadBack(s) == IF s = "CANCELLED" THEN "FAILED" ELSE s

\* C38, amended: every frequency is read back as it was written, and so is
\* every status but CANCELLED, which is read back as FAILED.
EnumsSurviveButCancelled ==
  \A p \in Procs :
    /\ (Done(p, "create") /\ result[p].kind = "ok") =>
         /\ result[p].job.frequency = op[p].fields.frequency
         /\ dbStringToFrequency(store[result[p].job.id].frequency)
              = op[p].fields.frequency
    /\ (Done(p, "update") /\ result[p].kind = "ok"
          /\ "status" \in DOMAIN op[p].partial) =>
         /\ result[p].job.status = ReadBack(op[p].partial.status)
         /\ dbStringToStatus(store[op[p].id].status) = ReadBack(op[p].partial.status)

\* A job has been updated to COMPLETED and read back.
EnumsSurviveWitness ==
  \E p \in Procs :
    /\ Done(p, "update") /\ result[p].kind = "ok"
    /\ "status" \in DOMAIN op[p].partial
    /\ op[p].partial.status = "COMPLETED"
    /\ result[p].job.frequency = "MONTHLY"

(***************************************************************************)
(* The fingerprints of field sets that differ.                             *)
(***************************************************************************)
\* The normalised form of a field set.
Normalized(fields) == normalizeJobHashData(DuplicateCheckFields(fields))

\* C39: two field sets whose normalised forms differ have different
\* canonical strings, whatever characters their keys and strings hold.
FingerprintSensitive ==
  (hashes.h1 # <<>> /\ Normalized(hashes.F1) # Normalized(hashes.F2)) =>
    hashes.h1 # hashes.h2

\* The same for field sets none of whose keys holds a quote.
FingerprintSensitiveQuoteFree ==
  (/\ hashes.h1 # <<>>
   /\ Normalized(hashes.F1) # Normalized(hashes.F2)
   /\ \A F \in {hashes.F1, hashes.F2} :
        \A i \in 1..Len(F.data[2]) : F.data[2][i][1] \in {"a", "b"}) =>
    hashes.h1 # hashes.h2

====
